---- MODULE Spec2Model ----
(***************************************************************************)
(* tele-mcp: a gateway that serves a stdio JSON-RPC child process over     *)
(* WebSocket and HTTP.  The module models                                  *)
(*   - the process pool            (pool.go),                              *)
(*   - Process.Kill                (process.go, src/unnamed/part_005),     *)
(*   - the WebSocket bridge        (bridge.go,  src/unnamed/part_002 and   *)
(*                                  handleWebSocket, src/unnamed/part_000),*)
(*   - the HTTP handler            (http.go,    src/unnamed/part_004).     *)
(* Each component has its own specification over the shared variables; a   *)
(* specification leaves the variables of the other components unchanged.   *)
(***************************************************************************)
EXTENDS Integers, Sequences, FiniteSets, TLC

VARIABLES
    \* ---- configuration and pool (pool.go, main.go)
    poolSize,   \* main.go poolSize: the configured capacity
    size,       \* ProcessPool.size
    chanCap,    \* cap(ProcessPool.pool)
    command,    \* ProcessPool.command / mcpCommand: the command line, a sequence of characters
    pool,       \* ProcessPool.pool: the channel's buffer, a sequence of process ids
    proc,       \* every Process object created so far: id -> its fields
    startable,  \* environment: whether exec can start the command right now
    boot,       \* main(): "prespawn" (inside NewProcessPool) or "serving"
    bi,         \* NewProcessPool: the pre-spawn loop's i
    mpc,        \* maintainPool goroutine: "none", "select", "spawn"
    needed,     \* maintainPool: needed
    mi,         \* maintainPool: the replenish loop's i
    \* ---- connections acquiring a process (Bridge.Start, handleHTTP)
    cpc,        \* per connection: "new", "get", "miss", "own", "fail", "closed"
    cproc,      \* per connection: the process it holds (b.process / process), or None
    \* ---- calls of Process.Kill (process.go)
    kpc,        \* per calling task: "idle", "call", "grace", "second", "ret"
    ktarget,    \* per calling task: the process Kill was called on, or None
    kcalls,     \* per calling task: the number of Kill calls that have returned
    \* ---- one WebSocket connection (handleWebSocket, bridge.go)
    wpc,        \* handleWebSocket: "start", "coldstart", "wait", "returned"
    bproc,      \* Bridge.process, or None
    bdone,      \* Bridge.done is closed
    wg,         \* Bridge.wg: the WaitGroup's counter
    ipc,        \* pipeWebSocketToStdin: "none", "read", "write", "newline",
                \*   "cleanup", "killing", "wgdone", "ended"
    imsg,       \* pipeWebSocketToStdin: the message being written
    opc,        \* pipeStdoutToWebSocket: "none", "read", "send", "ended"
    ochunk,     \* pipeStdoutToWebSocket: the chunk being sent
    conn,       \* the server's end of the connection: "open", "closed"
    client,     \* the client's end: "open", "closed"
    wsIn,       \* frames the client has sent and the bridge has not read yet
    sent,       \* the types of the frames the client has sent, in order
    stdinData,  \* what has been written to the process's stdin, in order
    outBuf,     \* chunks the process has written to stdout, not read yet
    emitted,    \* number of chunks the process has written
    wsOut,      \* text frames the bridge has sent to the client, in order
    \* ---- one request to the HTTP endpoint (handleHTTP, http.go)
    req,        \* the request: version and accept headers, method, body
    hpc,        \* handleHTTP / handleSSEStream: where the handler is
    hstatus,    \* the status code written, 0 while none is
    hproc,      \* the handler's process, or None
    hcalls,     \* what the handler has called so far: "ReadBody", "Get",
                \*   "Start", "StdinWrite", "Kill"
    hlines,     \* lines the process has written to stdout, not scanned yet
    hemitted,   \* number of lines the process has written
    hout,       \* the SSE events written to the response, in order
    \* ---- the session bridge (main.go): one session identifier
    durableMode, \* BridgeServer.durableMode
    childOk,    \* environment: whether a child can be started and initialized
    sessions,   \* BridgeServer.sessions: the Session stored for the
                \*   identifier, or None
    heap,       \* every Session object created so far: id -> stdioClient
                \*   ("open" / "closed"), restartCount, lastError
    now,        \* the clock
    spc,        \* per operation task: where handleWithRetry is
    osess,      \* handleWithRetry: session
    ores,       \* the handler's result variable
    oerr,       \* handleWithRetry: err, what operation(session) returned
    oret,       \* what handleWithRetry returned
    oref,       \* cleanupSession / restartSession: the Session just loaded
    onew,       \* createSessionForClient: the Session created, not yet stored
    ocnt,       \* restartSession: the restartCount read by session.restartCount++
    ocalls,     \* number of operations started so far
    oruns,      \* per task: how often operation(session) ran in this call
    restartLog  \* the times at which restartSession returned nil

poolVars == <<poolSize, size, chanCap, command, pool, proc, startable, boot, bi, mpc, needed, mi>>
connVars == <<cpc, cproc>>
killVars == <<kpc, ktarget, kcalls>>
bridgeVars == <<wpc, bproc, bdone, wg, ipc, imsg, opc, ochunk, conn, client,
                wsIn, sent, stdinData, outBuf, emitted, wsOut>>
httpVars == <<req, hpc, hstatus, hproc, hcalls, hlines, hemitted, hout>>
sessVars == <<durableMode, childOk, sessions, heap, now, spc, osess, ores,
              oerr, oret, oref, onew, ocnt, ocalls, oruns, restartLog>>
otherVars == <<bridgeVars, httpVars, sessVars>>
vars == <<poolVars, connVars, killVars, otherVars>>

None == 0

\* ---------------------------------------------------------------- bounds
\* largest configured pool size explored
MaxPoolSize == 2
\* number of connections that ever arrive
MaxConns == 2
\* number of tasks calling Kill concurrently on one process
MaxKillers == 2
\* number of Kill calls each of them makes
MaxKillCalls == 2
\* number of frames the client of a WebSocket connection sends
MaxFrames == 2
\* number of chunks a child writes to its stdout
MaxChunks == 2
\* number of lines a child writes to its stdout while serving a request
MaxLines == 2
\* number of operations handled concurrently for one session
MaxOps == 3
\* number of operations started in all
MaxCalls == 4
\* how far the clock runs
MaxTime == 2
\* longest command line explored, in characters
MaxCommandLen == 2
\* number of Process objects created while p.spawn() is called from outside
\* the maintenance loop
MaxSpawned == 3

Conns == 1..MaxConns
\* the tasks that call Kill: concurrent callers, and the task that owns a
\* bridge or a request
Killers == 1..MaxKillers
Owner == MaxKillers + 1
Tasks == Killers \cup {Owner}

\* ------------------------------------------------------------- processes
\* the characters of a command line: white space and anything else
Chars == {" ", "x"}

\* The command lines explored.  main() refuses the empty one.
Commands == UNION {[1..n -> Chars] : n \in 1..MaxCommandLen}

\* the command line of the specifications that are not about it
DefaultCommand == <<"x">>

\* strings.Fields: the maximal runs of non-space characters of s, in order;
\* cur is the run being read.
RECURSIVE FieldsFrom(_, _)
FieldsFrom(s, cur) ==
    IF s = <<>> THEN (IF cur = <<>> THEN <<>> ELSE <<cur>>)
    ELSE IF Head(s) = " "
         THEN (IF cur = <<>> THEN <<>> ELSE <<cur>>) \o FieldsFrom(Tail(s), <<>>)
         ELSE FieldsFrom(Tail(s), Append(cur, Head(s)))

Fields(s) == FieldsFrom(s, <<>>)

\* Process.Start: `if len(args) == 0 { return nil }` leaves p.cmd nil and
\* reports no error; otherwise the pipes are made and cmd.Start() decides.
Start ==
    IF Len(Fields(command)) = 0 THEN [err |-> FALSE, cmd |-> "nil"]
    ELSE IF startable THEN [err |-> FALSE, cmd |-> "started"]
    ELSE [err |-> TRUE, cmd |-> "noproc"]

\* A Process object right after NewProcess + a successful Start.
\* by: the code that created it, "pool" (ProcessPool.spawn) or "conn" (a
\* handler's cold start).
\* cmd: "nil" (Start returned before exec.Command: blank command line),
\*      "noproc" (cmd set, cmd.Process nil: Start failed), "started".
\* mu: the task holding p.mu, or None.  os: the OS process, "running" or
\* "exited".  waiter: the goroutine `done <- p.cmd.Wait()` of Kill, "none",
\* "running" or "done" (the process is reaped and done holds a value).
\* timer: the time.After channel Kill selects on, "none", "running", "fired".
\* kills, sigterm, sigkill: how often the kill sequence was started and the
\* signals were sent.
StartedProcess(by) ==
    [cmd |-> IF Len(Fields(command)) = 0 THEN "nil" ELSE "started", killed |-> FALSE, stdin |-> "open", os |-> "running",
     mu |-> None, waiter |-> "none", timer |-> "none",
     kills |-> 0, sigterm |-> 0, sigkill |-> 0, by |-> by]

\* The id the next Process object gets.
NewPid == Cardinality(DOMAIN proc) + 1

\* proc extended by a freshly started process.
WithNew(pr, by) == [p \in DOMAIN pr \cup {Cardinality(DOMAIN pr) + 1} |->
                      IF p \in DOMAIN pr THEN pr[p] ELSE StartedProcess(by)]

\* mutant: Kill does not look at the killed flag
KillNoop_NoFlag(r) == r.cmd = "nil" \/ r.cmd = "noproc"

\* Process.Kill: if p.killed || p.cmd == nil || p.cmd.Process == nil { return }
KillNoop(r) == r.killed \/ r.cmd = "nil" \/ r.cmd = "noproc"

\* Process.Kill run to completion on one process record.  Kill holds the
\* process mutex from entry to return and touches only that process, so
\* where no other task looks at the process meanwhile its net effect is:
\* nothing, if already killed or never started; otherwise killed is set,
\* stdin is closed and the OS process is gone after at most SIGTERM+SIGKILL.
KillDone(r) ==
    IF KillNoop(r) THEN r
    ELSE [r EXCEPT !.killed = TRUE, !.stdin = "closed", !.os = "exited",
                   !.waiter = "done", !.kills = @ + 1]

\* ------------------------------------------------------------------ pool
\* mutant: the pool is built one larger than configured
NewProcessPool_Oversize(n) == [size |-> n + 1, chanCap |-> n + 1]

\* NewProcessPool(command, size): the struct's size field and the capacity
\* of the channel are both the size it is given.
NewProcessPool(n) == [size |-> n, chanCap |-> n]

\* mutant: a process that finds the channel full is dropped without Kill
SpawnInsert_Drop(q, pr, p) ==
    IF Len(q) < chanCap
    THEN [pool |-> Append(q, p), proc |-> pr]
    ELSE [pool |-> q, proc |-> pr]

\* ProcessPool.spawn after a successful start of process p: the select
\* sends p into the channel if there is room, and kills it otherwise.
\* Gives the new channel buffer and the new process table.
SpawnInsert(q, pr, p) ==
    IF Len(q) < chanCap
    THEN [pool |-> Append(q, p), proc |-> pr]
    ELSE [pool |-> q, proc |-> [pr EXCEPT ![p] = KillDone(pr[p])]]

\* mutant: Get hands out the head of the channel without removing it
Get_Peek(q) ==
    IF q = <<>> THEN [process |-> None, pool |-> q]
    ELSE [process |-> Head(q), pool |-> q]

\* ProcessPool.Get: a non-blocking receive.
Get(q) ==
    IF q = <<>> THEN [process |-> None, pool |-> q]
    ELSE [process |-> Head(q), pool |-> Tail(q)]

\* mutant: the deficit is computed one too small
Needed_OffByOne(current) == size - current - 1

\* maintainPool: needed := p.size - len(p.pool)
Needed(current) == size - current

InitPoolOf(commands) ==
    /\ command \in commands
    /\ poolSize \in 0..MaxPoolSize
    /\ size = NewProcessPool(poolSize).size
    /\ chanCap = NewProcessPool(poolSize).chanCap
    /\ pool = <<>>
    /\ proc = <<>>
    /\ startable \in BOOLEAN
    /\ boot = "prespawn"
    /\ bi = 0
    /\ mpc = "none"
    /\ needed = 0
    /\ mi = 0

InitPool == InitPoolOf({DefaultCommand})

InitConns ==
    /\ cpc = [c \in Conns |-> "new"]
    /\ cproc = [c \in Conns |-> None]

InitKill ==
    /\ kpc = [t \in Tasks |-> "idle"]
    /\ ktarget = [t \in Tasks |-> None]
    /\ kcalls = [t \in Tasks |-> 0]

\* A WebSocket connection has been upgraded and handleWebSocket is about to
\* start its bridge.
InitBridge ==
    /\ wpc = "start" /\ bproc = None /\ bdone = FALSE /\ wg = 0
    /\ ipc = "none" /\ imsg = None /\ opc = "none" /\ ochunk = None
    /\ conn = "open" /\ client = "open"
    /\ wsIn = <<>> /\ sent = <<>> /\ stdinData = <<>>
    /\ outBuf = <<>> /\ emitted = 0 /\ wsOut = <<>>

\* no HTTP request
NoRequest == [version |-> "", method |-> "GET", accept |-> {}, body |-> "none"]

InitNoHTTP ==
    /\ req = NoRequest /\ hpc = "none" /\ hstatus = 0 /\ hproc = None
    /\ hcalls = {} /\ hlines = <<>> /\ hemitted = 0 /\ hout = <<>>

\* the session bridge is not running
InitNoSession ==
    /\ durableMode = FALSE /\ childOk = FALSE /\ sessions = None /\ heap = <<>>
    /\ now = 0 /\ ocalls = 0 /\ restartLog = <<>>
    /\ spc = <<>> /\ osess = <<>> /\ ores = <<>> /\ oerr = <<>>
    /\ oret = <<>> /\ oref = <<>> /\ onew = <<>> /\ ocnt = <<>> /\ oruns = <<>>

\* The environment: the command becomes startable or stops being so
\* (binary missing, fork limit reached, ...).
EnvStartable ==
    /\ startable' = ~startable
    /\ UNCHANGED <<poolSize, size, chanCap, command, pool, proc, boot, bi, mpc, needed, mi>>
    /\ UNCHANGED <<connVars, killVars, otherVars>>

\* One p.spawn() call: a failed start returns the error (logged by the
\* caller); a successful one inserts or kills.
SpawnCall ==
    IF ~Start.err
    THEN /\ pool' = SpawnInsert(pool, WithNew(proc, "pool"), NewPid).pool
         /\ proc' = SpawnInsert(pool, WithNew(proc, "pool"), NewPid).proc
    ELSE UNCHANGED <<pool, proc>>

\* NewProcessPool: one iteration of the pre-spawn loop.
PreSpawn ==
    /\ boot = "prespawn"
    /\ size > 0
    /\ bi < size
    /\ SpawnCall
    /\ bi' = bi + 1
    /\ UNCHANGED <<poolSize, size, chanCap, command, startable, boot, mpc, needed, mi>>
    /\ UNCHANGED <<connVars, killVars, otherVars>>

\* NewProcessPool returns: with size > 0 the maintenance goroutine has been
\* started; main goes on to register the handlers and listen.
PoolReady ==
    /\ boot = "prespawn"
    /\ size > 0 => bi = size
    /\ boot' = "serving"
    /\ mpc' = IF size > 0 THEN "select" ELSE "none"
    /\ UNCHANGED <<poolSize, size, chanCap, command, pool, proc, startable, bi, needed, mi>>
    /\ UNCHANGED <<connVars, killVars, otherVars>>

\* maintainPool: the ticker fires; under the mutex the loop reads the length
\* of the channel and computes the deficit.
MaintainTick ==
    /\ mpc = "select"
    /\ needed' = Needed(Len(pool))
    /\ mi' = 0
    /\ mpc' = IF Needed(Len(pool)) > 0 THEN "spawn" ELSE "select"
    /\ UNCHANGED <<poolSize, size, chanCap, command, pool, proc, startable, boot, bi>>
    /\ UNCHANGED <<connVars, killVars, otherVars>>

\* maintainPool: one iteration of the replenish loop.
MaintainSpawn ==
    /\ mpc = "spawn"
    /\ mi < needed
    /\ SpawnCall
    /\ mi' = mi + 1
    /\ mpc' = IF mi + 1 < needed THEN "spawn" ELSE "select"
    /\ UNCHANGED <<poolSize, size, chanCap, command, startable, boot, bi, needed>>
    /\ UNCHANGED <<connVars, killVars, otherVars>>

\* ----------------------------------------------------------- connections
\* A connection or POST request reaches the code that acquires a process.
Arrive(c) ==
    /\ boot = "serving"
    /\ cpc[c] = "new"
    /\ cpc' = [cpc EXCEPT ![c] = "get"]
    /\ UNCHANGED <<cproc>>
    /\ UNCHANGED <<poolVars, killVars, otherVars>>

\* process := pool.Get()
ConnGet(c) ==
    /\ cpc[c] = "get"
    /\ pool' = Get(pool).pool
    /\ cproc' = [cproc EXCEPT ![c] = Get(pool).process]
    /\ cpc' = [cpc EXCEPT ![c] = IF Get(pool).process = None THEN "miss" ELSE "own"]
    /\ UNCHANGED <<poolSize, size, chanCap, command, proc, startable, boot, bi, mpc, needed, mi>>
    /\ UNCHANGED <<killVars, otherVars>>

\* if process == nil { NewProcess; Start }: a failed start ends the handler.
ConnColdStart(c) ==
    /\ cpc[c] = "miss"
    /\ IF ~Start.err
       THEN /\ proc' = WithNew(proc, "conn")
            /\ cproc' = [cproc EXCEPT ![c] = NewPid]
            /\ cpc' = [cpc EXCEPT ![c] = "own"]
       ELSE /\ cpc' = [cpc EXCEPT ![c] = "fail"]
            /\ UNCHANGED <<proc, cproc>>
    /\ UNCHANGED <<poolSize, size, chanCap, command, pool, startable, boot, bi, mpc, needed, mi>>
    /\ UNCHANGED <<killVars, otherVars>>

\* What the owner does with the pool and its process when the connection or
\* request ends: Bridge.cleanup / the deferred process.Kill().  The field
\* keeps pointing at the killed process.
\* mutant: the owner hands its process back to the pool when it is done
Release_ToPool(q, pr, p) == [pool |-> Append(q, p), proc |-> pr]

Release(q, pr, p) == [pool |-> q, proc |-> [pr EXCEPT ![p] = KillDone(pr[p])]]

ConnRelease(c) ==
    /\ cpc[c] = "own"
    /\ pool' = Release(pool, proc, cproc[c]).pool
    /\ proc' = Release(pool, proc, cproc[c]).proc
    /\ cpc' = [cpc EXCEPT ![c] = "closed"]
    /\ UNCHANGED <<cproc>>
    /\ UNCHANGED <<poolSize, size, chanCap, command, startable, boot, bi, mpc, needed, mi>>
    /\ UNCHANGED <<killVars, otherVars>>

NextPool ==
    \/ EnvStartable
    \/ PreSpawn
    \/ PoolReady
    \/ MaintainTick
    \/ MaintainSpawn
    \/ \E c \in Conns : Arrive(c)
    \/ \E c \in Conns : ConnGet(c)
    \/ \E c \in Conns : ConnColdStart(c)
    \/ \E c \in Conns : ConnRelease(c)

Init == InitPool /\ InitConns /\ InitKill /\ InitBridge /\ InitNoHTTP /\ InitNoSession

Spec == Init /\ [][NextPool]_vars

\* The goroutines of the pool are scheduled and the ticker keeps firing;
\* nothing forces a client to arrive or the environment to change.
LiveSpec ==
    /\ Init /\ [][NextPool]_vars
    /\ WF_vars(PreSpawn) /\ WF_vars(PoolReady)
    /\ WF_vars(MaintainTick) /\ WF_vars(MaintainSpawn)

\* ------------------------------------------------------- claims: the pool
InPool(p) == \E i \in 1..Len(pool) : pool[i] = p

\* the number of owners of process p: pool slots and connections
Holders(p) ==
    Cardinality({i \in 1..Len(pool) : pool[i] = p})
    + Cardinality({c \in Conns : cproc[c] = p})

\* C1: every process has at most one owner (a pool slot or one connection /
\* request), so two Get() calls never return the same process; and a process
\* that is out of the pool is never inserted into it again.
C1_ExclusiveOwnership ==
    /\ [](\A p \in DOMAIN proc : Holders(p) <= 1)
    /\ [][\A p \in DOMAIN proc : ~InPool(p) => ~InPool(p)']_vars

\* two connections own different processes that both came out of the pool,
\* one of them already released, while the pool has been replenished
C1_Witness ==
    \E c1, c2 \in Conns :
        /\ c1 # c2 /\ cpc[c1] = "own" /\ cpc[c2] = "closed"
        /\ proc[cproc[c1]].by = "pool" /\ proc[cproc[c2]].by = "pool"
        /\ pool # <<>>

\* C2: the number of idle processes in the pool never exceeds the configured
\* capacity.
C2_PoolCapacity == Len(pool) <= poolSize

\* the pool is full again after a process was taken from it
C2_Witness ==
    /\ poolSize >= 2 /\ Len(pool) = poolSize
    /\ \E c \in Conns : cproc[c] # None /\ proc[cproc[c]].by = "pool"

\* C3: Get() never blocks; on an empty pool it returns none and leaves the
\* pool unchanged, on a non-empty pool it returns one idle process (the head
\* of the channel) and the idle count goes down by exactly one.
C3_GetNonBlocking ==
    /\ [](\A c \in Conns : cpc[c] = "get" => ENABLED ConnGet(c))
    /\ [][\A c \in Conns : (cpc[c] = "get" /\ cpc'[c] # "get") =>
            IF Len(pool) = 0
            THEN cproc'[c] = None /\ pool' = pool
            ELSE /\ \E p \in DOMAIN proc :
                      p = cproc'[c] /\ InPool(p) /\ ~InPool(p)'
                 /\ Len(pool') = Len(pool) - 1]_vars

\* one Get() has missed and another one has hit
C3_Witness ==
    \E c1, c2 \in Conns :
        /\ cpc[c1] = "miss" /\ cproc[c1] = None
        /\ cpc[c2] = "own" /\ proc[cproc[c2]].by = "pool"

\* C4: if spawns succeed from some point on and Get() calls stop, the
\* maintenance loop brings the idle count to the configured capacity and it
\* stays there; it never exceeds the capacity on the way.
C4_PoolStabilizes ==
    /\ [](Len(pool) <= poolSize)
    /\ (<>[]startable /\ <>[][\A c \in Conns : ~ConnGet(c)]_vars)
          => <>[](Len(pool) = poolSize)

\* the pool is back at a non-zero capacity after a Get() took a process and
\* a spawn had failed
C4_Witness ==
    /\ poolSize > 0 /\ Len(pool) = poolSize /\ boot = "serving" /\ startable
    /\ \E c \in Conns : cproc[c] # None /\ proc[cproc[c]].by = "pool"
    /\ \E p \in DOMAIN proc : proc[p].by = "conn"

\* ---------------------------------------------------------- Process.Kill
\* the pool's variables other than the process table
poolRest == <<poolSize, size, chanCap, command, pool, startable, boot, bi, mpc, needed, mi>>

\* Kill(): p.mu.Lock() succeeds.  A killed or never started process makes
\* the call return at once (the deferred Unlock runs).  Otherwise killed is
\* set, stdin is closed, the goroutine waiting for the process is started
\* and the select on done and the 2s timer begins.
KillEnter(t) ==
    /\ kpc[t] = "call"
    /\ proc[ktarget[t]].mu = None
    /\ IF KillNoop(proc[ktarget[t]])
       THEN /\ kpc' = [kpc EXCEPT ![t] = "ret"]
            /\ UNCHANGED proc
       ELSE /\ kpc' = [kpc EXCEPT ![t] = "grace"]
            /\ proc' = [proc EXCEPT ![ktarget[t]] =
                          [@ EXCEPT !.mu = t, !.killed = TRUE, !.kills = @ + 1,
                                    !.stdin = "closed", !.waiter = "running",
                                    !.timer = "running"]]
    /\ UNCHANGED <<poolRest, connVars, ktarget, kcalls, otherVars>>

\* case <-done: the process exited within the grace window; return.
\* A select parked on done and on the timer is woken by the one that becomes
\* ready first: it takes this case when done got its value while the timer
\* was running.
KillGraceDone(t) ==
    /\ kpc[t] = "grace"
    /\ proc[ktarget[t]].waiter = "done"
    /\ proc[ktarget[t]].timer = "running"
    /\ kpc' = [kpc EXCEPT ![t] = "ret"]
    /\ proc' = [proc EXCEPT ![ktarget[t]] = [@ EXCEPT !.mu = None, !.timer = "none"]]
    /\ UNCHANGED <<poolRest, connVars, ktarget, kcalls, otherVars>>

\* mutant: SIGTERM is sent without waiting for the grace window to expire
KillGraceTimeout_Eager(t) ==
    /\ kpc[t] = "grace"
    /\ kpc' = [kpc EXCEPT ![t] = "second"]
    /\ proc' = [proc EXCEPT ![ktarget[t]] =
                  [@ EXCEPT !.sigterm = @ + 1, !.timer = "running"]]
    /\ UNCHANGED <<poolRest, connVars, ktarget, kcalls, otherVars>>

\* mutant: after SIGKILL the call waits for nothing and the goroutine that
\* waits for the process is dropped
KillSecondTimeout_NoWaiter(t) ==
    /\ kpc[t] = "second"
    /\ proc[ktarget[t]].timer = "fired"
    /\ kpc' = [kpc EXCEPT ![t] = "ret"]
    /\ proc' = [proc EXCEPT ![ktarget[t]] =
                  [@ EXCEPT !.sigkill = @ + 1, !.mu = None, !.timer = "none",
                            !.waiter = "none"]]
    /\ UNCHANGED <<poolRest, connVars, ktarget, kcalls, otherVars>>

\* case <-time.After(2s): send SIGTERM, select on done and the 1s timer.
KillGraceTimeout(t) ==
    /\ kpc[t] = "grace"
    /\ proc[ktarget[t]].timer = "fired"
    /\ kpc' = [kpc EXCEPT ![t] = "second"]
    /\ proc' = [proc EXCEPT ![ktarget[t]] =
                  [@ EXCEPT !.sigterm = @ + 1, !.timer = "running"]]
    /\ UNCHANGED <<poolRest, connVars, ktarget, kcalls, otherVars>>

\* case <-done: the process exited after SIGTERM; return.
KillSecondDone(t) ==
    /\ kpc[t] = "second"
    /\ proc[ktarget[t]].waiter = "done"
    /\ proc[ktarget[t]].timer = "running"
    /\ kpc' = [kpc EXCEPT ![t] = "ret"]
    /\ proc' = [proc EXCEPT ![ktarget[t]] = [@ EXCEPT !.mu = None, !.timer = "none"]]
    /\ UNCHANGED <<poolRest, connVars, ktarget, kcalls, otherVars>>

\* case <-time.After(1s): send SIGKILL and return.
KillSecondTimeout(t) ==
    /\ kpc[t] = "second"
    /\ proc[ktarget[t]].timer = "fired"
    /\ kpc' = [kpc EXCEPT ![t] = "ret"]
    /\ proc' = [proc EXCEPT ![ktarget[t]] =
                  [@ EXCEPT !.sigkill = @ + 1, !.mu = None, !.timer = "none"]]
    /\ UNCHANGED <<poolRest, connVars, ktarget, kcalls, otherVars>>

\* The timer Kill is selecting on expires.  The timer is made when the
\* select is entered, and a select that finds done ready is over at once: the
\* expiry decides the select only while done holds no value.
TimerFire(p) ==
    /\ proc[p].timer = "running"
    /\ proc[p].waiter # "done"
    /\ proc' = [proc EXCEPT ![p] = [@ EXCEPT !.timer = "fired"]]
    /\ UNCHANGED <<poolRest, connVars, killVars, otherVars>>

\* The OS process ends: on its own, on end of input, or on a signal.
ChildExit(p) ==
    /\ proc[p].cmd = "started"
    /\ proc[p].os = "running"
    /\ proc' = [proc EXCEPT ![p] = [@ EXCEPT !.os = "exited"]]
    /\ UNCHANGED <<poolRest, connVars, killVars, otherVars>>

\* go func() { done <- p.cmd.Wait() }(): Wait returns once the process has
\* exited; the process is reaped and done holds a value.
WaitReturn(p) ==
    /\ proc[p].waiter = "running"
    /\ proc[p].os = "exited"
    /\ proc' = [proc EXCEPT ![p] = [@ EXCEPT !.waiter = "done"]]
    /\ UNCHANGED <<poolRest, connVars, killVars, otherVars>>

\* A task calls Kill() on the process.
KillCall(t) ==
    /\ kpc[t] = "idle"
    /\ kcalls[t] < MaxKillCalls
    /\ kpc' = [kpc EXCEPT ![t] = "call"]
    /\ ktarget' = [ktarget EXCEPT ![t] = 1]
    /\ UNCHANGED <<poolVars, connVars, kcalls, otherVars>>

\* The call has returned to the task.
KillReturn(t) ==
    /\ kpc[t] = "ret"
    /\ kpc' = [kpc EXCEPT ![t] = "idle"]
    /\ kcalls' = [kcalls EXCEPT ![t] = @ + 1]
    /\ UNCHANGED <<poolVars, connVars, ktarget, otherVars>>

\* No pool: one Process object exists, in any of the states NewProcess and
\* Start can leave it in.
InitOneProcess ==
    /\ poolSize = 0 /\ size = 0 /\ chanCap = 0 /\ pool = <<>>
    /\ startable = TRUE /\ boot = "serving" /\ bi = 0
    /\ command = DefaultCommand
    /\ mpc = "none" /\ needed = 0 /\ mi = 0
    /\ \E c \in {"nil", "noproc", "started"} :
          proc = <<[StartedProcess("conn") EXCEPT !.cmd = c]>>

InitKillSpec == InitOneProcess /\ InitConns /\ InitKill /\ InitBridge /\ InitNoHTTP /\ InitNoSession

NextKill ==
    \/ \E t \in Killers : KillCall(t)
    \/ \E t \in Killers : KillEnter(t)
    \/ \E t \in Killers : KillGraceDone(t)
    \/ \E t \in Killers : KillGraceTimeout(t)
    \/ \E t \in Killers : KillSecondDone(t)
    \/ \E t \in Killers : KillSecondTimeout(t)
    \/ \E t \in Killers : KillReturn(t)
    \/ \E p \in DOMAIN proc : TimerFire(p)
    \/ \E p \in DOMAIN proc : ChildExit(p)
    \/ \E p \in DOMAIN proc : WaitReturn(p)

SpecKill == InitKillSpec /\ [][NextKill]_vars

\* ------------------------------------------------------- claims: Kill
\* C5: over any interleaving of Kill() calls on one process the kill
\* sequence is started at most once (so stdin is closed and each signal is
\* sent at most once), and a Kill() that finds the process already killed
\* returns at once, changing nothing and sending no signal.
C5_KillIdempotent ==
    /\ [](\A p \in DOMAIN proc :
            proc[p].kills <= 1 /\ proc[p].sigterm <= 1 /\ proc[p].sigkill <= 1)
    /\ [][\A t \in Tasks :
            (kpc[t] = "call" /\ kpc'[t] # "call" /\ proc[ktarget[t]].killed)
               => (kpc'[t] = "ret" /\ proc' = proc)]_vars

\* two Kill() calls have returned on a process that was killed with SIGKILL,
\* one of them by another task than the one that ran the sequence
C5_Witness ==
    /\ proc[1].killed /\ proc[1].sigkill = 1 /\ proc[1].mu = None
    /\ \E t1, t2 \in Killers : t1 # t2 /\ kcalls[t1] >= 1 /\ kcalls[t2] >= 1

\* ------------------------------------------------------ WebSocket bridge
\* mutant: cleanup is deferred before wg.Done, so it runs after it
InboundDefers_Swapped == <<"wgdone", "cleanup">>

\* pipeWebSocketToStdin: `defer b.wg.Done()` then `defer b.cleanup()`;
\* deferred calls run last-in first-out, so cleanup runs first.
InboundDefers == <<"cleanup", "wgdone">>

\* where pipeWebSocketToStdin is after its deferred call d has run
AfterDefer(d) == IF d = InboundDefers[1] THEN InboundDefers[2] ELSE "ended"

\* a write to the process's stdin pipe succeeds
StdinWritable(r) == r.stdin = "open" /\ r.os = "running"

\* Bridge.Start: process := b.pool.Get(); a hit binds the process and starts
\* both pumps, after which handleWebSocket waits.
WsStart ==
    /\ wpc = "start"
    /\ pool' = Get(pool).pool
    /\ IF Get(pool).process # None
       THEN /\ bproc' = Get(pool).process
            /\ wg' = 2 /\ ipc' = "read" /\ opc' = "read"
            /\ wpc' = "wait"
       ELSE /\ wpc' = "coldstart"
            /\ UNCHANGED <<bproc, wg, ipc, opc>>
    /\ UNCHANGED <<poolSize, size, chanCap, command, proc, startable, boot, bi, mpc, needed, mi>>
    /\ UNCHANGED <<bdone, imsg, ochunk, conn, client, wsIn, sent, stdinData,
                   outBuf, emitted, wsOut>>
    /\ UNCHANGED <<connVars, killVars, httpVars, sessVars>>

\* Bridge.Start on a miss: NewProcess + Start.  A failed start makes
\* handleWebSocket return; its deferred conn.Close() runs.
WsColdStart ==
    /\ wpc = "coldstart"
    /\ IF ~Start.err
       THEN /\ proc' = WithNew(proc, "conn")
            /\ bproc' = NewPid
            /\ wg' = 2 /\ ipc' = "read" /\ opc' = "read"
            /\ wpc' = "wait"
            /\ UNCHANGED conn
       ELSE /\ wpc' = "returned"
            /\ conn' = "closed"
            /\ UNCHANGED <<proc, bproc, wg, ipc, opc>>
    /\ UNCHANGED <<poolRest, bdone, imsg, ochunk, client, wsIn, sent, stdinData,
                   outBuf, emitted, wsOut>>
    /\ UNCHANGED <<connVars, killVars, httpVars, sessVars>>

\* bridge.Wait() returns when both pumps have called wg.Done();
\* handleWebSocket returns and its deferred conn.Close() runs.
WsWaitReturn ==
    /\ wpc = "wait"
    /\ wg = 0
    /\ wpc' = "returned"
    /\ conn' = "closed"
    /\ UNCHANGED <<poolVars, connVars, killVars, httpVars, sessVars>>
    /\ UNCHANGED <<bproc, bdone, wg, ipc, imsg, opc, ochunk, client, wsIn, sent,
                   stdinData, outBuf, emitted, wsOut>>

\* The client sends a frame of type ty.
ClientSend(ty) ==
    /\ client = "open" /\ conn = "open"
    /\ Len(sent) < MaxFrames
    /\ wsIn' = Append(wsIn, [type |-> ty, data |-> Len(sent) + 1])
    /\ sent' = Append(sent, ty)
    /\ UNCHANGED <<poolVars, connVars, killVars, httpVars, sessVars>>
    /\ UNCHANGED <<wpc, bproc, bdone, wg, ipc, imsg, opc, ochunk, conn, client,
                   stdinData, outBuf, emitted, wsOut>>

\* The client closes the connection or goes away.
ClientClose ==
    /\ client = "open" /\ conn = "open"
    /\ client' = "closed"
    /\ UNCHANGED <<poolVars, connVars, killVars, httpVars, sessVars>>
    /\ UNCHANGED <<wpc, bproc, bdone, wg, ipc, imsg, opc, ochunk, conn,
                   wsIn, sent, stdinData, outBuf, emitted, wsOut>>

\* mutant: the inbound pump forwards frames of every type
InRead_AnyType ==
    /\ ipc = "read"
    /\ wsIn # <<>> \/ client = "closed"
    /\ IF wsIn # <<>>
       THEN /\ wsIn' = Tail(wsIn)
            /\ imsg' = Head(wsIn).data /\ ipc' = "write"
       ELSE /\ ipc' = InboundDefers[1]
            /\ UNCHANGED <<wsIn, imsg>>
    /\ UNCHANGED <<poolVars, connVars, killVars, httpVars, sessVars>>
    /\ UNCHANGED <<wpc, bproc, bdone, wg, opc, ochunk, conn, client, sent,
                   stdinData, outBuf, emitted, wsOut>>

\* pipeWebSocketToStdin: b.conn.ReadMessage() returns.  It blocks while no
\* frame is pending and the client is there; a pending frame is returned
\* (a non-text one is ignored); a closed client is a read error, which ends
\* the loop.
InRead ==
    /\ ipc = "read"
    /\ wsIn # <<>> \/ client = "closed"
    /\ IF wsIn # <<>>
       THEN /\ wsIn' = Tail(wsIn)
            /\ IF Head(wsIn).type = "text"
               THEN imsg' = Head(wsIn).data /\ ipc' = "write"
               ELSE UNCHANGED <<imsg, ipc>>
       ELSE /\ ipc' = InboundDefers[1]
            /\ UNCHANGED <<wsIn, imsg>>
    /\ UNCHANGED <<poolVars, connVars, killVars, httpVars, sessVars>>
    /\ UNCHANGED <<wpc, bproc, bdone, wg, opc, ochunk, conn, client, sent,
                   stdinData, outBuf, emitted, wsOut>>

\* pipeWebSocketToStdin: b.process.stdin.Write(message); an error ends the
\* loop.
InWrite ==
    /\ ipc = "write"
    /\ IF StdinWritable(proc[bproc])
       THEN stdinData' = Append(stdinData, imsg) /\ ipc' = "newline"
       ELSE UNCHANGED stdinData /\ ipc' = InboundDefers[1]
    /\ UNCHANGED <<poolVars, connVars, killVars, httpVars, sessVars>>
    /\ UNCHANGED <<wpc, bproc, bdone, wg, imsg, opc, ochunk, conn, client, wsIn,
                   sent, outBuf, emitted, wsOut>>

\* pipeWebSocketToStdin: b.process.stdin.Write("\n"); an error ends the loop.
InNewline ==
    /\ ipc = "newline"
    /\ IF StdinWritable(proc[bproc])
       THEN stdinData' = Append(stdinData, "nl") /\ ipc' = "read"
       ELSE UNCHANGED stdinData /\ ipc' = InboundDefers[1]
    /\ UNCHANGED <<poolVars, connVars, killVars, httpVars, sessVars>>
    /\ UNCHANGED <<wpc, bproc, bdone, wg, imsg, opc, ochunk, conn, client, wsIn,
                   sent, outBuf, emitted, wsOut>>

\* Bridge.cleanup (deferred by pipeWebSocketToStdin): close(b.done), then
\* b.process.Kill() is called.
InCleanup ==
    /\ ipc = "cleanup"
    /\ bdone' = TRUE
    /\ kpc' = [kpc EXCEPT ![Owner] = "call"]
    /\ ktarget' = [ktarget EXCEPT ![Owner] = bproc]
    /\ ipc' = "killing"
    /\ UNCHANGED <<poolVars, connVars, kcalls, httpVars, sessVars>>
    /\ UNCHANGED <<wpc, bproc, wg, imsg, opc, ochunk, conn, client, wsIn, sent,
                   stdinData, outBuf, emitted, wsOut>>

\* Bridge.cleanup: Kill() has returned.
InKillReturned ==
    /\ ipc = "killing"
    /\ kpc[Owner] = "ret"
    /\ kpc' = [kpc EXCEPT ![Owner] = "idle"]
    /\ kcalls' = [kcalls EXCEPT ![Owner] = @ + 1]
    /\ ipc' = AfterDefer("cleanup")
    /\ UNCHANGED <<poolVars, connVars, ktarget, httpVars, sessVars>>
    /\ UNCHANGED <<wpc, bproc, bdone, wg, imsg, opc, ochunk, conn, client, wsIn,
                   sent, stdinData, outBuf, emitted, wsOut>>

\* pipeWebSocketToStdin: the deferred b.wg.Done().
InWgDone ==
    /\ ipc = "wgdone"
    /\ wg' = wg - 1
    /\ ipc' = AfterDefer("wgdone")
    /\ UNCHANGED <<poolVars, connVars, killVars, httpVars, sessVars>>
    /\ UNCHANGED <<wpc, bproc, bdone, imsg, opc, ochunk, conn, client, wsIn, sent,
                   stdinData, outBuf, emitted, wsOut>>

\* pipeStdoutToWebSocket: b.process.stdout.Read(buffer) returns.  It blocks
\* while the process runs and has written nothing.  Once cmd.Wait() has
\* returned the pipe is closed and the read fails; otherwise a pending chunk
\* is returned; otherwise the process has exited and the read gives EOF.  An
\* error or EOF ends the pump, whose deferred b.wg.Done() runs.
OutRead ==
    /\ opc = "read"
    /\ outBuf # <<>> \/ proc[bproc].os = "exited"
    /\ IF proc[bproc].waiter # "done" /\ outBuf # <<>>
       THEN /\ ochunk' = Head(outBuf)
            /\ outBuf' = Tail(outBuf)
            /\ opc' = "send"
            /\ UNCHANGED wg
       ELSE /\ opc' = "ended"
            /\ wg' = wg - 1
            /\ UNCHANGED <<ochunk, outBuf>>
    /\ UNCHANGED <<poolVars, connVars, killVars, httpVars, sessVars>>
    /\ UNCHANGED <<wpc, bproc, bdone, ipc, imsg, conn, client, wsIn, sent,
                   stdinData, emitted, wsOut>>

\* mutant: a chunk is sent again when the next one is read
OutSend_KeepsChunk ==
    /\ opc = "send"
    /\ IF client = "open" /\ conn = "open"
       THEN /\ wsOut' = wsOut \o <<ochunk, ochunk>>
            /\ opc' = "read"
            /\ UNCHANGED wg
       ELSE /\ opc' = "ended"
            /\ wg' = wg - 1
            /\ UNCHANGED wsOut
    /\ UNCHANGED <<poolVars, connVars, killVars, httpVars, sessVars>>
    /\ UNCHANGED <<wpc, bproc, bdone, ipc, imsg, ochunk, conn, client, wsIn, sent,
                   stdinData, outBuf, emitted>>

\* pipeStdoutToWebSocket: b.conn.WriteMessage(TextMessage, buffer[:n]); an
\* error ends the pump, whose deferred b.wg.Done() runs.
OutSend ==
    /\ opc = "send"
    /\ IF client = "open" /\ conn = "open"
       THEN /\ wsOut' = Append(wsOut, ochunk)
            /\ opc' = "read"
            /\ UNCHANGED wg
       ELSE /\ opc' = "ended"
            /\ wg' = wg - 1
            /\ UNCHANGED wsOut
    /\ UNCHANGED <<poolVars, connVars, killVars, httpVars, sessVars>>
    /\ UNCHANGED <<wpc, bproc, bdone, ipc, imsg, ochunk, conn, client, wsIn, sent,
                   stdinData, outBuf, emitted>>

\* The bound process writes a chunk to its stdout.
ChildEmit ==
    /\ bproc # None
    /\ proc[bproc].os = "running"
    /\ emitted < MaxChunks
    /\ outBuf' = Append(outBuf, emitted + 1)
    /\ emitted' = emitted + 1
    /\ UNCHANGED <<poolVars, connVars, killVars, httpVars, sessVars>>
    /\ UNCHANGED <<wpc, bproc, bdone, wg, ipc, imsg, opc, ochunk, conn, client,
                   wsIn, sent, stdinData, wsOut>>

\* SIGKILL ends the process.
ChildKilled(p) ==
    /\ proc[p].sigkill > 0
    /\ proc[p].os = "running"
    /\ proc' = [proc EXCEPT ![p] = [@ EXCEPT !.os = "exited"]]
    /\ UNCHANGED <<poolRest, connVars, killVars, otherVars>>

\* The pool as main() leaves it before the first connection: every
\* pre-spawn succeeded or failed; the maintenance loop is between ticks.
InitWarmPool ==
    /\ command = DefaultCommand
    /\ poolSize \in 0..1
    /\ size = NewProcessPool(poolSize).size
    /\ chanCap = NewProcessPool(poolSize).chanCap
    /\ \E n \in 0..poolSize :
          /\ pool = [i \in 1..n |-> i]
          /\ proc = [i \in 1..n |-> StartedProcess("pool")]
    /\ startable \in BOOLEAN
    /\ boot = "serving" /\ bi = size
    /\ mpc = IF size > 0 THEN "select" ELSE "none"
    /\ needed = 0 /\ mi = 0

InitBridgeSpec == InitWarmPool /\ InitConns /\ InitKill /\ InitBridge /\ InitNoHTTP /\ InitNoSession

NextBridge ==
    \/ WsStart
    \/ WsColdStart
    \/ WsWaitReturn
    \/ \E ty \in {"text", "binary"} : ClientSend(ty)
    \/ ClientClose
    \/ InRead
    \/ InWrite
    \/ InNewline
    \/ InCleanup
    \/ InKillReturned
    \/ InWgDone
    \/ OutRead
    \/ OutSend
    \/ ChildEmit
    \/ KillEnter(Owner)
    \/ KillGraceDone(Owner)
    \/ KillGraceTimeout(Owner)
    \/ KillSecondDone(Owner)
    \/ KillSecondTimeout(Owner)
    \/ \E p \in DOMAIN proc : TimerFire(p)
    \/ \E p \in DOMAIN proc : ChildExit(p)
    \/ \E p \in DOMAIN proc : ChildKilled(p)
    \/ \E p \in DOMAIN proc : WaitReturn(p)

SpecBridge == InitBridgeSpec /\ [][NextBridge]_vars

\* Every goroutine of the server that can take a step eventually does, a
\* running timer fires and SIGKILL ends a process.  Nothing forces the
\* client to send or to close, nor the process to write or to exit by
\* itself.
FairSpecBridge ==
    /\ InitBridgeSpec /\ [][NextBridge]_vars
    /\ WF_vars(WsStart) /\ WF_vars(WsColdStart) /\ WF_vars(WsWaitReturn)
    /\ WF_vars(InRead) /\ WF_vars(InWrite) /\ WF_vars(InNewline)
    /\ WF_vars(InCleanup) /\ WF_vars(InKillReturned) /\ WF_vars(InWgDone)
    /\ WF_vars(OutRead) /\ WF_vars(OutSend)
    /\ WF_vars(KillEnter(Owner))
    /\ WF_vars(KillGraceDone(Owner)) /\ WF_vars(KillGraceTimeout(Owner))
    /\ WF_vars(KillSecondDone(Owner)) /\ WF_vars(KillSecondTimeout(Owner))
    /\ WF_vars(\E p \in DOMAIN proc : TimerFire(p))
    /\ WF_vars(\E p \in DOMAIN proc : ChildKilled(p))
    /\ WF_vars(\E p \in DOMAIN proc : WaitReturn(p))

\* ---------------------------------------------------- claims: the bridge
\* pipeWebSocketToStdin has left its loop
InboundEnded == ipc \in {"cleanup", "killing", "wgdone", "ended"}

\* Kill() has been called on the bridge's process
KillInvoked ==
    /\ bproc # None
    /\ ktarget[Owner] = bproc
    /\ kpc[Owner] # "idle" \/ kcalls[Owner] >= 1

\* C6: when either pump of a bridge ends, cleanup eventually runs: Kill() is
\* invoked on the bound process, the other pump ends and the connection is
\* closed.
C6_CleanupOnEitherPumpEnd ==
    (InboundEnded \/ opc = "ended")
        ~> (KillInvoked /\ ipc = "ended" /\ opc = "ended" /\ conn = "closed")

\* C7: once handleWebSocket has returned from bridge.Wait(), Kill() has been
\* invoked on the bridge's process and has returned.
C7_KilledBeforeWaitReturns ==
    (wpc = "returned" /\ bproc # None)
        => (ktarget[Owner] = bproc /\ kcalls[Owner] >= 1)

\* handleWebSocket has returned from Wait() for a process from the pool that
\* had to be killed with SIGKILL
C7_Witness ==
    /\ wpc = "returned" /\ bproc # None /\ conn = "closed"
    /\ proc[bproc].by = "pool" /\ proc[bproc].sigkill = 1

\* ---------------------------------------------------------- HTTP handler
\* An Accept header is modelled by the set of media ranges that occur in it,
\* which is all strings.Contains looks at; the empty set is an absent or
\* empty header (r.Header.Get gives "" for both).
\* strings.Contains(accept, t) for a media type t: t occurs in the header.
MediaRanges == {"application/json", "text/event-stream", "*/*"}
AcceptValues == SUBSET MediaRanges
Contains(accept, t) == t \in accept

\* A request body: what io.ReadAll and json.Unmarshal into a map make of it.
\* kind: "readerr" (the read fails), "malformed" (not JSON), "array" (JSON,
\* no object), "null" (the literal null), "object" with the given keys.
Bodies ==
    {[kind |-> k, keys |-> {}] : k \in {"readerr", "malformed", "array", "null"}}
    \cup {[kind |-> "object", keys |-> ks] : ks \in SUBSET {"method", "result", "error"}}
NoBody == [kind |-> "none", keys |-> {}]

\* r.Header.Get gives "" for an absent header
Requests ==
    {[version |-> v, method |-> m, accept |-> a, body |-> NoBody] :
        v \in {"", "2025-06-18"}, m \in {"GET", "DELETE"}, a \in AcceptValues}
    \cup {[version |-> v, method |-> "POST", accept |-> a, body |-> b] :
        v \in {"", "2025-06-18"}, a \in AcceptValues, b \in Bodies}

\* A line on the child's stdout: "garbage" (not JSON), "array" (JSON, no
\* object), "null" (the literal null) or a JSON object with the given keys;
\* idnull: its id is null.
Lines ==
    {[kind |-> k, keys |-> {}, idnull |-> FALSE] : k \in {"garbage", "array", "null"}}
    \cup {[kind |-> "object", keys |-> ks, idnull |-> FALSE] :
            ks \in {{"method", "id"}, {"method"}, {"result", "id"}, {"result"}}}
    \cup {[kind |-> "object", keys |-> {"result", "id"}, idnull |-> TRUE]}

\* json.Unmarshal(line, &json.RawMessage) succeeds
ValidJSON(l) == l.kind # "garbage"
\* json.Unmarshal(x, &map[string]interface{}) succeeds: an object, or null
\* (which leaves the map nil)
UnmarshalsToMap(x) == x.kind \in {"object", "null"}

\* mutant: the protocol-version header is only checked for non-GET requests
Validate_VersionAfterGet(r) ==
    IF r.method = "GET"
    THEN IF ~Contains(r.accept, "text/event-stream") THEN "400" ELSE "sse"
    ELSE IF r.version = "" THEN "400"
    ELSE IF r.method # "POST" THEN "405"
    ELSE IF ~Contains(r.accept, "application/json")
            \/ ~Contains(r.accept, "text/event-stream") THEN "400"
    ELSE "post"

\* mutant: GET does not look at the Accept header
Validate_GetAnyAccept(r) ==
    IF r.version = "" THEN "400"
    ELSE IF r.method = "GET" THEN "sse"
    ELSE IF r.method # "POST" THEN "405"
    ELSE IF ~Contains(r.accept, "application/json")
            \/ ~Contains(r.accept, "text/event-stream") THEN "400"
    ELSE "post"

\* mutant: POST is rejected only if both media types are missing
Validate_AcceptEither(r) ==
    IF r.version = "" THEN "400"
    ELSE IF r.method = "GET"
    THEN IF ~Contains(r.accept, "text/event-stream") THEN "400" ELSE "sse"
    ELSE IF r.method # "POST" THEN "405"
    ELSE IF ~Contains(r.accept, "application/json")
            /\ ~Contains(r.accept, "text/event-stream") THEN "400"
    ELSE "post"

\* handleHTTP up to the first thing it does beyond looking at the request:
\* "400", "405", "sse" (handleSSEStream) or "post" (read the body).
Validate(r) ==
    IF r.version = "" THEN "400"
    ELSE IF r.method = "GET"
    THEN IF ~Contains(r.accept, "text/event-stream") THEN "400" ELSE "sse"
    ELSE IF r.method # "POST" THEN "405"
    ELSE IF ~Contains(r.accept, "application/json")
            \/ ~Contains(r.accept, "text/event-stream") THEN "400"
    ELSE "post"

\* mutant: a body without a method is handed to a process like any other
Classify_NoAck(b) ==
    IF b.kind = "readerr" THEN "400"
    ELSE IF ~UnmarshalsToMap(b) THEN "400"
    ELSE "acquire"

\* handleHTTP after the body was read: "400" (read or parse error), "202" (no
\* method but a result or an error) or "acquire".
Classify(b) ==
    IF b.kind = "readerr" THEN "400"
    ELSE IF ~UnmarshalsToMap(b) THEN "400"
    ELSE IF "method" \notin b.keys /\ ("result" \in b.keys \/ "error" \in b.keys)
    THEN "202"
    ELSE "acquire"

\* mutant: the handler takes a process from the pool before it validates
HValidate_GetFirst ==
    /\ hpc = "entry"
    /\ pool' = Get(pool).pool
    /\ hproc' = Get(pool).process
    /\ CASE Validate(req) = "400" -> hstatus' = 400 /\ hpc' = "done"
         [] Validate(req) = "405" -> hstatus' = 405 /\ hpc' = "done"
         [] Validate(req) = "sse" -> hstatus' = hstatus /\ hpc' = "sse_spawn"
         [] Validate(req) = "post" -> hstatus' = hstatus /\ hpc' = "readbody"
    /\ UNCHANGED <<poolSize, size, chanCap, command, proc, startable, boot, bi, mpc, needed, mi>>
    /\ UNCHANGED <<req, hcalls, hlines, hemitted, hout>>
    /\ UNCHANGED <<connVars, killVars, bridgeVars, sessVars>>

\* handleHTTP, the header and method checks.
HValidate ==
    /\ hpc = "entry"
    /\ CASE Validate(req) = "400" -> hstatus' = 400 /\ hpc' = "done"
         [] Validate(req) = "405" -> hstatus' = 405 /\ hpc' = "done"
         [] Validate(req) = "sse" -> hstatus' = hstatus /\ hpc' = "sse_spawn"
         [] Validate(req) = "post" -> hstatus' = hstatus /\ hpc' = "readbody"
    /\ UNCHANGED <<req, hproc, hcalls, hlines, hemitted, hout>>
    /\ UNCHANGED <<poolVars, connVars, killVars, bridgeVars, sessVars>>

\* handleHTTP: io.ReadAll(r.Body), json.Unmarshal, and the check for a
\* response sent by the client.
HReadBody ==
    /\ hpc = "readbody"
    /\ hcalls' = hcalls \cup {"ReadBody"}
    /\ CASE Classify(req.body) = "400" -> hstatus' = 400 /\ hpc' = "done"
         [] Classify(req.body) = "202" -> hstatus' = 202 /\ hpc' = "done"
         [] Classify(req.body) = "acquire" -> hstatus' = hstatus /\ hpc' = "acquire"
    /\ UNCHANGED <<req, hproc, hlines, hemitted, hout>>
    /\ UNCHANGED <<poolVars, connVars, killVars, bridgeVars, sessVars>>

\* handleHTTP: process := bridge.pool.Get(); a hit registers the deferred
\* Kill and goes on to write.
HAcquire ==
    /\ hpc = "acquire"
    /\ hcalls' = hcalls \cup {"Get"}
    /\ pool' = Get(pool).pool
    /\ hproc' = Get(pool).process
    /\ hpc' = IF Get(pool).process = None THEN "coldstart" ELSE "write"
    /\ UNCHANGED <<poolSize, size, chanCap, command, proc, startable, boot, bi, mpc, needed, mi>>
    /\ UNCHANGED <<req, hstatus, hlines, hemitted, hout>>
    /\ UNCHANGED <<connVars, killVars, bridgeVars, sessVars>>

\* handleHTTP on a miss: NewProcess + Start; a failed start is a 500.
HColdStart ==
    /\ hpc = "coldstart"
    /\ hcalls' = hcalls \cup {"Start"}
    /\ IF ~Start.err
       THEN /\ proc' = WithNew(proc, "conn")
            /\ hproc' = NewPid
            /\ hpc' = "write"
            /\ UNCHANGED hstatus
       ELSE /\ hstatus' = 500
            /\ hpc' = "done"
            /\ UNCHANGED <<proc, hproc>>
    /\ UNCHANGED <<poolRest, req, hlines, hemitted, hout>>
    /\ UNCHANGED <<connVars, killVars, bridgeVars, sessVars>>

\* mutant: the Kill is not deferred, and the return on a write error skips it
HWrite_NoDefer ==
    /\ hpc = "write"
    /\ hcalls' = hcalls \cup {"StdinWrite"}
    /\ IF StdinWritable(proc[hproc])
       THEN hpc' = "newline" /\ UNCHANGED hstatus
       ELSE hpc' = "done" /\ hstatus' = 500
    /\ UNCHANGED <<req, hproc, hlines, hemitted, hout>>
    /\ UNCHANGED <<poolVars, connVars, killVars, bridgeVars, sessVars>>

\* handleHTTP: process.stdin.Write(body); an error is a 500 and the handler
\* returns through the deferred Kill.
HWrite ==
    /\ hpc = "write"
    /\ hcalls' = hcalls \cup {"StdinWrite"}
    /\ IF StdinWritable(proc[hproc])
       THEN hpc' = "newline" /\ UNCHANGED hstatus
       ELSE hpc' = "kill" /\ hstatus' = 500
    /\ UNCHANGED <<req, hproc, hlines, hemitted, hout>>
    /\ UNCHANGED <<poolVars, connVars, killVars, bridgeVars, sessVars>>

\* handleHTTP: process.stdin.Write("\n"); then the response mode is chosen
\* from the Accept header.
HNewline ==
    /\ hpc = "newline"
    /\ IF StdinWritable(proc[hproc])
       THEN /\ hpc' = IF Contains(req.accept, "text/event-stream")
                      THEN "stream" ELSE "single"
            /\ UNCHANGED hstatus
       ELSE hpc' = "kill" /\ hstatus' = 500
    /\ UNCHANGED <<req, hproc, hcalls, hlines, hemitted, hout>>
    /\ UNCHANGED <<poolVars, connVars, killVars, bridgeVars, sessVars>>

\* a line of the process's output can be scanned, or its output has ended
ScanReturns == hlines # <<>> \/ proc[hproc].os = "exited"

\* handleHTTP, the non-streaming loop: what one scanned line leads to.
\* "continue" (a request or a notification of the server, or a line that is
\* no JSON object or matches no case), "200" (a result or an error with an id
\* field, null or not) or "202" (a result or an error without an id field).
SingleClassify(l) ==
    IF ~ValidJSON(l) \/ ~UnmarshalsToMap(l) THEN "continue"
    ELSE IF "method" \in l.keys THEN "continue"
    ELSE IF ("result" \in l.keys \/ "error" \in l.keys) /\ "id" \in l.keys THEN "200"
    ELSE IF "result" \in l.keys \/ "error" \in l.keys THEN "202"
    ELSE "continue"

\* handleHTTP, non-streaming: one turn of the loop.  scanner.Scan() blocks
\* until a line or the end of the output; the 30s timer is only looked at
\* between two scans, so it can end the loop only after a line that did not.
HSingleScan ==
    /\ ScanReturns
    /\ IF hlines # <<>>
       THEN /\ hlines' = Tail(hlines)
            /\ CASE SingleClassify(Head(hlines)) = "200" ->
                       /\ hout' = Append(hout, [event |-> "body", line |-> Head(hlines)])
                       /\ hstatus' = 200
                       /\ hpc' = "kill"
                 [] SingleClassify(Head(hlines)) = "202" ->
                       /\ hstatus' = 202
                       /\ hpc' = "kill"
                       /\ UNCHANGED hout
                 [] SingleClassify(Head(hlines)) = "continue" ->
                       /\ \E expired \in BOOLEAN :
                            IF expired
                            THEN hstatus' = 504 /\ hpc' = "kill"
                            ELSE UNCHANGED <<hstatus, hpc>>
                       /\ UNCHANGED hout
       ELSE /\ hstatus' = 500
            /\ hpc' = "kill"
            /\ UNCHANGED <<hlines, hout>>

\* handleHTTP, streaming: scanner.Scan().  A valid JSON line is written as a
\* data event; a JSON object without an id ends the relay; so does the end of
\* the output.  (With hpc = "single" the non-streaming loop runs instead.)
HStreamScan ==
    /\ hpc \in {"stream", "single"}
    /\ IF hpc = "single"
       THEN HSingleScan
       ELSE
         /\ ScanReturns
         /\ IF hlines # <<>>
            THEN /\ hlines' = Tail(hlines)
                 /\ IF ValidJSON(Head(hlines))
                    THEN /\ hout' = Append(hout, [event |-> "data", line |-> Head(hlines)])
                         /\ hstatus' = 200
                         /\ hpc' = IF UnmarshalsToMap(Head(hlines))
                                      /\ "id" \notin Head(hlines).keys
                                   THEN "doneevent" ELSE "stream"
                    ELSE UNCHANGED <<hout, hstatus, hpc>>
            ELSE /\ hpc' = "doneevent"
                 /\ UNCHANGED <<hlines, hout, hstatus>>
    /\ UNCHANGED <<req, hproc, hcalls, hemitted>>
    /\ UNCHANGED <<poolVars, connVars, killVars, bridgeVars, sessVars>>

\* mutant: the handler returns after the relay without the closing event
HDoneEvent_Silent ==
    /\ hpc = "doneevent"
    /\ hstatus' = 200
    /\ hpc' = "kill"
    /\ UNCHANGED <<req, hproc, hcalls, hlines, hemitted, hout>>
    /\ UNCHANGED <<poolVars, connVars, killVars, bridgeVars, sessVars>>

\* handleHTTP, streaming: the closing `event: done`.
HDoneEvent ==
    /\ hpc = "doneevent"
    /\ hout' = Append(hout, [event |-> "done", line |-> None])
    /\ hstatus' = 200
    /\ hpc' = "kill"
    /\ UNCHANGED <<req, hproc, hcalls, hlines, hemitted>>
    /\ UNCHANGED <<poolVars, connVars, killVars, bridgeVars, sessVars>>

\* handleSSEStream: the headers are set, then NewProcess + Start; a failed
\* start is a 500.
HSseSpawn ==
    /\ hpc = "sse_spawn"
    /\ hcalls' = hcalls \cup {"Start"}
    /\ IF ~Start.err
       THEN /\ proc' = WithNew(proc, "conn")
            /\ hproc' = NewPid
            /\ hpc' = "sse_scan"
            /\ UNCHANGED hstatus
       ELSE /\ hstatus' = 500
            /\ hpc' = "done"
            /\ UNCHANGED <<proc, hproc>>
    /\ UNCHANGED <<poolRest, req, hlines, hemitted, hout>>
    /\ UNCHANGED <<connVars, killVars, bridgeVars, sessVars>>

\* handleSSEStream: scanner.Scan().  Every valid JSON line is written as a
\* data event; the loop ends with the process's output.
HSseScan ==
    /\ hpc = "sse_scan"
    /\ ScanReturns
    /\ IF hlines # <<>>
       THEN /\ hlines' = Tail(hlines)
            /\ IF ValidJSON(Head(hlines))
               THEN /\ hout' = Append(hout, [event |-> "data", line |-> Head(hlines)])
                    /\ hstatus' = 200
               ELSE UNCHANGED <<hout, hstatus>>
            /\ UNCHANGED hpc
       ELSE /\ hpc' = "kill"
            /\ UNCHANGED <<hlines, hout, hstatus>>
    /\ UNCHANGED <<req, hproc, hcalls, hemitted>>
    /\ UNCHANGED <<poolVars, connVars, killVars, bridgeVars, sessVars>>

\* The handler returns: the deferred process.Kill() is called.
HKillCall ==
    /\ hpc = "kill"
    /\ hcalls' = hcalls \cup {"Kill"}
    /\ kpc' = [kpc EXCEPT ![Owner] = "call"]
    /\ ktarget' = [ktarget EXCEPT ![Owner] = hproc]
    /\ hpc' = "killing"
    /\ UNCHANGED <<req, hstatus, hproc, hlines, hemitted, hout>>
    /\ UNCHANGED <<poolVars, connVars, kcalls, bridgeVars, sessVars>>

\* Kill() has returned and so does the handler; a response on which no
\* status was written goes out as 200.
HKillReturned ==
    /\ hpc = "killing"
    /\ kpc[Owner] = "ret"
    /\ kpc' = [kpc EXCEPT ![Owner] = "idle"]
    /\ kcalls' = [kcalls EXCEPT ![Owner] = @ + 1]
    /\ hpc' = "done"
    /\ hstatus' = IF hstatus = 0 THEN 200 ELSE hstatus
    /\ UNCHANGED <<req, hproc, hcalls, hlines, hemitted, hout>>
    /\ UNCHANGED <<poolVars, connVars, ktarget, bridgeVars, sessVars>>

\* The handler's process writes a line to its stdout.
ChildEmitLine(l) ==
    /\ hproc # None
    /\ proc[hproc].os = "running"
    /\ hemitted < MaxLines
    /\ hlines' = Append(hlines, l)
    /\ hemitted' = hemitted + 1
    /\ UNCHANGED <<req, hpc, hstatus, hproc, hcalls, hout>>
    /\ UNCHANGED <<poolVars, connVars, killVars, bridgeVars, sessVars>>

\* A request has arrived at handleHTTP.
InitHTTP ==
    /\ req \in Requests
    /\ hpc = "entry" /\ hstatus = 0 /\ hproc = None
    /\ hcalls = {} /\ hlines = <<>> /\ hemitted = 0 /\ hout = <<>>

InitHTTPSpec == InitWarmPool /\ InitConns /\ InitKill /\ InitBridge /\ InitHTTP /\ InitNoSession

NextHTTP ==
    \/ HValidate
    \/ HReadBody
    \/ HAcquire
    \/ HColdStart
    \/ HWrite
    \/ HNewline
    \/ HStreamScan
    \/ HDoneEvent
    \/ HSseSpawn
    \/ HSseScan
    \/ HKillCall
    \/ HKillReturned
    \/ \E l \in Lines : ChildEmitLine(l)
    \/ KillEnter(Owner)
    \/ KillGraceDone(Owner)
    \/ KillGraceTimeout(Owner)
    \/ KillSecondDone(Owner)
    \/ KillSecondTimeout(Owner)
    \/ \E p \in DOMAIN proc : TimerFire(p)
    \/ \E p \in DOMAIN proc : ChildExit(p)
    \/ \E p \in DOMAIN proc : ChildKilled(p)
    \/ \E p \in DOMAIN proc : WaitReturn(p)

SpecHTTP == InitHTTPSpec /\ [][NextHTTP]_vars

\* the handler's position is one the code has
HTypeOK ==
    hpc \in {"none", "entry", "readbody", "acquire", "coldstart", "write", "newline",
             "stream", "single", "doneevent", "sse_spawn", "sse_scan", "kill",
             "killing", "done"}

\* -------------------------------------------- claims: request validation
\* the pool still holds every process that exists, in spawn order: no Get()
\* has taken one and nothing was spawned outside the pool
PoolUntouched ==
    /\ pool = [i \in 1..Cardinality(DOMAIN proc) |-> i]
    /\ \A p \in DOMAIN proc : proc[p].by = "pool"

\* the handler has neither taken a process from the pool nor spawned one
HNoProcessEffect ==
    /\ hproc = None
    /\ hcalls \cap {"Get", "Start", "StdinWrite", "Kill"} = {}
    /\ PoolUntouched

\* the handler answers 400 straight from the header checks
HRejected400 ==
    /\ hpc \in {"entry", "done"}
    /\ hpc = "done" => hstatus = 400

\* C8: a request without the MCP-Protocol-Version header is answered 400
\* whatever its method, and the handler neither takes a process from the
\* pool nor spawns one.
C8_MissingVersionRejected ==
    req.version = "" => (HRejected400 /\ HNoProcessEffect)

\* a GET asking for an event stream, without the version header, has been
\* answered while the pool held a process and the command could be started
C8_Witness ==
    /\ req.version = "" /\ req.method = "GET"
    /\ Contains(req.accept, "text/event-stream")
    /\ hpc = "done" /\ hstatus = 400
    /\ pool # <<>> /\ startable

\* C9: a GET with the version header whose Accept lacks text/event-stream
\* is answered 400 and spawns nothing; one whose Accept has it goes on to
\* start a process of its own and never takes one from the pool.
C9_GetNeedsEventStream ==
    (req.method = "GET" /\ req.version # "") =>
        IF ~Contains(req.accept, "text/event-stream")
        THEN HRejected400 /\ HNoProcessEffect
        ELSE /\ "Get" \notin hcalls
             /\ pool = [i \in 1..Len(pool) |-> i]
             /\ \A i \in 1..Len(pool) : proc[i].by = "pool"
             /\ hstatus # 400
             /\ hpc \notin {"entry", "sse_spawn"} => "Start" \in hcalls
             /\ (hpc \notin {"entry", "sse_spawn"} /\ hstatus # 500) => hproc # None
             /\ hproc # None => (proc[hproc].by = "conn" /\ ~InPool(hproc))

\* a GET event stream has run on a process of its own and has ended, while
\* the pool still holds its idle process
C9_Witness ==
    /\ req.method = "GET" /\ req.version # ""
    /\ Contains(req.accept, "text/event-stream")
    /\ hpc = "done" /\ hproc # None /\ hout # <<>>
    /\ pool # <<>>

C11_NoEffectOn4xx ==
    hstatus \in 400..499 => (hstatus \in {400, 405} /\ HNoProcessEffect)

\* a POST with both media types whose body is no JSON has been answered 400
\* while the pool held a process
C11_Witness ==
    /\ req.method = "POST" /\ req.body.kind = "malformed"
    /\ "ReadBody" \in hcalls
    /\ hpc = "done" /\ hstatus = 400
    /\ pool # <<>>

\* the body is a JSON object without a method field and with a result or an
\* error field, in a POST that passes the header checks
ClientResponsePost ==
    /\ req.method = "POST" /\ req.version # ""
    /\ Contains(req.accept, "application/json")
    /\ Contains(req.accept, "text/event-stream")
    /\ req.body.kind = "object"
    /\ "method" \notin req.body.keys
    /\ req.body.keys \cap {"result", "error"} # {}

\* C12: a valid POST whose body has no method field but a result or an error
\* field is answered 202 with no pool Get, no spawn and no write to any process.
C12_ClientResponseAccepted ==
    ClientResponsePost =>
        /\ hpc \in {"entry", "readbody", "done"}
        /\ hpc = "done" => hstatus = 202
        /\ HNoProcessEffect

\* the body {"result": ...} has been answered 202 while the pool held a process
C12_Witness ==
    /\ ClientResponsePost /\ req.body.keys = {"result"}
    /\ hpc = "done" /\ hstatus = 202
    /\ pool # <<>>

\* ------------------------------------------------ claims: POST delivery
\* the request {"jsonrpc":"2.0","id":1,"method":"ping"} posted with the
\* version header and Accept: application/json only
PingJsonOnly ==
    /\ req.method = "POST" /\ req.version # ""
    /\ req.accept = {"application/json"}
    /\ req.body.kind = "object" /\ req.body.keys = {"method"}

\* the line {"jsonrpc":"2.0","id":1,"result":{}}
PingResult == [kind |-> "object", keys |-> {"result", "id"}, idnull |-> FALSE]

\* C13: a POST of the ping request with Accept: application/json only is
\* answered 200 with exactly the child's result line as the body.
C13_SingleJsonDelivery ==
    (PingJsonOnly /\ hpc = "done") =>
        /\ hstatus = 200
        /\ hout = <<[event |-> "body", line |-> PingResult]>>

\* C14: whenever the POST handler has returned after it acquired a process
\* (pool hit or cold start), on whatever path, Kill() was called on that
\* process and has returned.
C14_PostProcessReleased ==
    (req.method = "POST" /\ hproc # None /\ hpc = "done") =>
        /\ "Kill" \in hcalls
        /\ ktarget[Owner] = hproc
        /\ kcalls[Owner] >= 1
        /\ proc[hproc].killed

\* the handler took a process from the pool, failed to write to it (it had
\* exited), answered 500 and has returned
C14_Witness ==
    /\ req.method = "POST" /\ hproc # None /\ hpc = "done"
    /\ proc[hproc].by = "pool"
    /\ hstatus = 500 /\ hout = <<>>
    /\ kcalls[Owner] = 1

\* the streaming response is closed: its events are data events followed by
\* one `event: done`, the last
DoneMarkerLast ==
    /\ hout # <<>>
    /\ hout[Len(hout)].event = "done"
    /\ \A i \in 1..(Len(hout) - 1) : hout[i].event = "data"

\* the POST handler is in, or has been through, the streaming loop
PostStreaming ==
    /\ req.method = "POST"
    /\ \/ hpc \in {"stream", "doneevent"}
       \/ hpc \in {"kill", "killing", "done"} /\ hstatus = 200

\* C15: a POST response started in streaming mode ends with exactly one
\* `event: done`, after the last relayed data event: while the relay runs
\* only data events are written; the relay loop is left (on a line without
\* an id, or at the end of the process's output) only towards the marker,
\* which the handler can then always write and writes as its next step; a
\* handler past that point has the marker as its last event.
C15_DoneMarkerCloses ==
    /\ [](PostStreaming =>
            IF hpc \in {"stream", "doneevent"}
            THEN \A i \in 1..Len(hout) : hout[i].event = "data"
            ELSE DoneMarkerLast)
    /\ [][(PostStreaming /\ hpc = "stream" /\ hpc' # "stream")
            => hpc' = "doneevent"]_vars
    /\ [](PostStreaming /\ hpc = "doneevent" => ENABLED HDoneEvent)
    /\ [][(PostStreaming /\ hpc = "doneevent" /\ hpc' # "doneevent")
            => (hpc' = "kill" /\ DoneMarkerLast')]_vars

\* a streaming POST relayed a line with an id and then a line without one,
\* and has returned
C15_Witness ==
    /\ PostStreaming /\ hpc = "done"
    /\ Len(hout) = 3
    /\ "id" \in hout[1].line.keys
    /\ "id" \notin hout[2].line.keys
    /\ hout[3].event = "done"

\* a POST that asks for a single JSON body: application/json without
\* text/event-stream, a version header and a request object as body
SingleJsonPost ==
    /\ req.method = "POST" /\ req.version # ""
    /\ Contains(req.accept, "application/json")
    /\ ~Contains(req.accept, "text/event-stream")
    /\ req.body.kind = "object" /\ "method" \in req.body.keys

\* C16: in the single-JSON POST path a handler that has returned without a
\* final response (nothing written, no 202) has answered 504 and has
\* released its process by Kill().
C16_SingleWaitBounded ==
    (SingleJsonPost /\ hpc = "done" /\ hout = <<>> /\ hstatus # 202) =>
        /\ hstatus = 504
        /\ hproc # None
        /\ "Kill" \in hcalls /\ proc[hproc].killed

\* -------------------------------------------------------- session bridge
\* The bridge of main.go, for one session identifier.  Operations (tool
\* call, resource read, prompt get) arrive on the tasks 1..MaxOps.
Ops == 1..MaxOps
Kinds == {"tool", "resource", "prompt"}

\* the clock counts units of 2.5 minutes: 5*time.Minute
FiveMinutes == 2
\* if session.restartCount >= 3
RestartLimit == 3
\* the zero time.Time of a new Session: longer ago than any window
ZeroTime == 0 - FiveMinutes
\* time.Since(t)
Since(t) == now - t

\* &Session{id: sessionID, stdioClient: stdioClient}
FreshSession == [client |-> "open", restartCount |-> 0, lastError |-> ZeroTime]

\* An error is modelled by the phrases that occur in its message, which is
\* all isRetriableError looks at, and by what it is.
NoError == [id |-> "nil", phrases |-> {}]
ErrTemporaryFailure == [id |-> "ErrTemporaryFailure", phrases |-> {}]
ErrSessionRestarted == [id |-> "ErrSessionRestarted", phrases |-> {}]
ErrSessionNotFound == [id |-> "session not found", phrases |-> {}]
RetriablePatterns ==
    {"broken pipe", "EOF", "process exited", "connection reset", "i/o timeout"}
\* the errors an operation on the child can fail with
OpErrors ==
    {[id |-> "operation", phrases |-> {ph}] : ph \in RetriablePatterns}
    \cup {[id |-> "operation", phrases |-> {}]}
\* what operation(session) can return as err
Outcomes == OpErrors \cup {NoError}
\* success and a retriable error
SomeOutcomes == {NoError, [id |-> "operation", phrases |-> {"broken pipe"}]}
\* what operation(session) gives: a result and no error, or an error
OpResult == [contents |-> "contents", rest |-> "rest"]
NoResult == [contents |-> "nil", rest |-> "nil"]

\* mutant: every error counts as retriable
IsRetriableError_Any(err) == err # NoError

IsRetriableError(err) ==
    /\ err # NoError
    /\ \E ph \in RetriablePatterns : Contains(err.phrases, ph)

\* session.restartCount >= 3 && time.Since(session.lastError) < 5*time.Minute
BudgetExhausted(ss) ==
    ss.restartCount >= RestartLimit /\ Since(ss.lastError) < FiveMinutes

\* handleWithRetry, exhausted budget: return err
ExhaustedOutcome(err) == err

\* handleWithRetry after operation(session) returned err on session ss:
\* "return" (err goes back as it is), "exhausted" or "restart"
Decide(err, ss) ==
    IF err = NoError \/ ~durableMode THEN "return"
    ELSE IF ~IsRetriableError(err) THEN "return"
    ELSE IF BudgetExhausted(ss) THEN "exhausted"
    ELSE "restart"

\* what handleToolCall / handleResourceRead / handlePromptGet return
HandlerReturn(kind, result, err) ==
    IF err # NoError THEN [result |-> "nil", err |-> err]
    ELSE IF kind = "resource" THEN [result |-> result.contents, err |-> NoError]
    ELSE [result |-> result, err |-> NoError]

sessEnv == <<durableMode, childOk, now>>
opLocals == <<osess, ores, oerr, oret, oref, onew, ocnt, oruns>>
gatewayVars == <<poolVars, connVars, killVars, bridgeVars, httpVars>>

\* A handler is entered for a new operation.
OpStart(o) ==
    /\ spc[o] \in {"idle", "done"}
    /\ ocalls < MaxCalls
    /\ ocalls' = ocalls + 1
    /\ spc' = [spc EXCEPT ![o] = "get"]
    /\ osess' = [osess EXCEPT ![o] = None]
    /\ ores' = [ores EXCEPT ![o] = NoResult]
    /\ oerr' = [oerr EXCEPT ![o] = NoError]
    /\ oret' = [oret EXCEPT ![o] = NoError]
    /\ oref' = [oref EXCEPT ![o] = None]
    /\ onew' = [onew EXCEPT ![o] = None]
    /\ ocnt' = [ocnt EXCEPT ![o] = 0]
    /\ oruns' = [oruns EXCEPT ![o] = 0]
    /\ UNCHANGED <<sessEnv, sessions, heap, restartLog, gatewayVars>>

\* mutant: a missing session is created lazily in non-durable mode too
OpGetSession_LazyAlways(o) ==
    /\ spc[o] = "get"
    /\ IF sessions # None
       THEN /\ osess' = [osess EXCEPT ![o] = sessions]
            /\ spc' = [spc EXCEPT ![o] = "run"]
       ELSE /\ spc' = [spc EXCEPT ![o] = "lazy_create"]
            /\ UNCHANGED osess
    /\ UNCHANGED <<ores, oerr, oret, oref, onew, ocnt, oruns>>
    /\ UNCHANGED <<sessEnv, sessions, heap, ocalls, restartLog, gatewayVars>>

\* getSessionFromContext: b.sessions.Load.  Without an entry, durable mode
\* goes on to create the session, non-durable mode returns an error.
OpGetSession(o) ==
    /\ spc[o] = "get"
    /\ IF sessions # None
       THEN /\ osess' = [osess EXCEPT ![o] = sessions]
            /\ spc' = [spc EXCEPT ![o] = "run"]
            /\ UNCHANGED oret
       ELSE IF durableMode
       THEN /\ spc' = [spc EXCEPT ![o] = "lazy_create"]
            /\ UNCHANGED <<osess, oret>>
       ELSE /\ oret' = [oret EXCEPT ![o] = ErrSessionNotFound]
            /\ spc' = [spc EXCEPT ![o] = "done"]
            /\ UNCHANGED osess
    /\ UNCHANGED <<ores, oerr, oref, onew, ocnt, oruns>>
    /\ UNCHANGED <<sessEnv, sessions, heap, ocalls, restartLog, gatewayVars>>

\* createSessionForClient up to the Store: NewStdioMCPClient and Initialize.
\* A failure returns (the client is closed if it was created).
OpCreate(o) ==
    /\ spc[o] \in {"lazy_create", "create"}
    /\ IF childOk
       THEN /\ heap' = Append(heap, FreshSession)
            /\ onew' = [onew EXCEPT ![o] = Len(heap) + 1]
            /\ spc' = [spc EXCEPT ![o] = IF spc[o] = "create" THEN "store"
                                          ELSE "lazy_store"]
       ELSE /\ spc' = [spc EXCEPT ![o] = IF spc[o] = "create" THEN "check"
                                          ELSE "lazy_load"]
            /\ UNCHANGED <<heap, onew>>
    /\ UNCHANGED <<osess, ores, oerr, oret, oref, ocnt, oruns>>
    /\ UNCHANGED <<sessEnv, sessions, ocalls, restartLog, gatewayVars>>

\* createSessionForClient: b.sessions.Store(sessionID, session), and return
OpStore(o) ==
    /\ spc[o] \in {"lazy_store", "store"}
    /\ sessions' = onew[o]
    /\ onew' = [onew EXCEPT ![o] = None]
    /\ spc' = [spc EXCEPT ![o] = IF spc[o] = "store" THEN "check" ELSE "lazy_load"]
    /\ UNCHANGED <<osess, ores, oerr, oret, oref, ocnt, oruns>>
    /\ UNCHANGED <<sessEnv, heap, ocalls, restartLog, gatewayVars>>

\* getSessionFromContext: the second Load; still no entry gives
\* ErrTemporaryFailure.
OpLazyLoad(o) ==
    /\ spc[o] = "lazy_load"
    /\ IF sessions # None
       THEN /\ osess' = [osess EXCEPT ![o] = sessions]
            /\ spc' = [spc EXCEPT ![o] = "run"]
            /\ UNCHANGED oret
       ELSE /\ oret' = [oret EXCEPT ![o] = ErrTemporaryFailure]
            /\ spc' = [spc EXCEPT ![o] = "done"]
            /\ UNCHANGED osess
    /\ UNCHANGED <<ores, oerr, oref, onew, ocnt, oruns>>
    /\ UNCHANGED <<sessEnv, sessions, heap, ocalls, restartLog, gatewayVars>>

\* handleWithRetry: err = operation(session) has returned `out`, and the
\* checks of lines 385-398 are made.
OpRun(o, out) ==
    /\ spc[o] = "run"
    /\ oruns' = [oruns EXCEPT ![o] = @ + 1]
    /\ oerr' = [oerr EXCEPT ![o] = out]
    /\ ores' = [ores EXCEPT ![o] = IF out = NoError THEN OpResult ELSE NoResult]
    /\ CASE Decide(out, heap[osess[o]]) = "return" ->
               /\ oret' = [oret EXCEPT ![o] = out]
               /\ spc' = [spc EXCEPT ![o] = "done"]
         [] Decide(out, heap[osess[o]]) = "exhausted" ->
               /\ oret' = [oret EXCEPT ![o] = ExhaustedOutcome(out)]
               /\ spc' = [spc EXCEPT ![o] = "done"]
         [] Decide(out, heap[osess[o]]) = "restart" ->
               /\ spc' = [spc EXCEPT ![o] = "cleanup"]
               /\ UNCHANGED oret
    /\ UNCHANGED <<osess, oref, onew, ocnt>>
    /\ UNCHANGED <<sessEnv, sessions, heap, ocalls, restartLog, gatewayVars>>

\* restartSession -> cleanupSession: b.sessions.Load
OpCleanupLoad(o) ==
    /\ spc[o] = "cleanup"
    /\ oref' = [oref EXCEPT ![o] = sessions]
    /\ spc' = [spc EXCEPT ![o] = IF sessions # None THEN "close" ELSE "create"]
    /\ UNCHANGED <<osess, ores, oerr, oret, onew, ocnt, oruns>>
    /\ UNCHANGED <<sessEnv, sessions, heap, ocalls, restartLog, gatewayVars>>

\* mutant: the old session is dropped from the map without closing its client
OpCleanupClose_NoClose(o) ==
    /\ spc[o] = "close"
    /\ sessions' = None
    /\ oref' = [oref EXCEPT ![o] = None]
    /\ spc' = [spc EXCEPT ![o] = "create"]
    /\ UNCHANGED <<osess, ores, oerr, oret, onew, ocnt, oruns>>
    /\ UNCHANGED <<sessEnv, heap, ocalls, restartLog, gatewayVars>>

\* cleanupSession: session.stdioClient.Close(); b.sessions.Delete(sessionID),
\* and return
OpCleanupClose(o) ==
    /\ spc[o] = "close"
    /\ heap' = [heap EXCEPT ![oref[o]].client = "closed"]
    /\ sessions' = None
    /\ oref' = [oref EXCEPT ![o] = None]
    /\ spc' = [spc EXCEPT ![o] = "create"]
    /\ UNCHANGED <<osess, ores, oerr, oret, onew, ocnt, oruns>>
    /\ UNCHANGED <<sessEnv, ocalls, restartLog, gatewayVars>>

\* mutant: restartSession does not look whether the session was created
OpCheck_Unchecked(o) ==
    /\ spc[o] = "check"
    /\ spc' = [spc EXCEPT ![o] = "bump_read"]
    /\ UNCHANGED <<osess, ores, oerr, oret, oref, onew, ocnt, oruns>>
    /\ UNCHANGED <<sessEnv, sessions, heap, ocalls, restartLog, gatewayVars>>

\* restartSession: the Load of line 319; no entry makes the restart fail and
\* handleWithRetry return ErrTemporaryFailure.
OpCheck(o) ==
    /\ spc[o] = "check"
    /\ IF sessions # None
       THEN /\ spc' = [spc EXCEPT ![o] = "bump_read"]
            /\ UNCHANGED oret
       ELSE /\ oret' = [oret EXCEPT ![o] = ErrTemporaryFailure]
            /\ spc' = [spc EXCEPT ![o] = "done"]
    /\ UNCHANGED <<osess, ores, oerr, oref, onew, ocnt, oruns>>
    /\ UNCHANGED <<sessEnv, sessions, heap, ocalls, restartLog, gatewayVars>>

\* restartSession: the Load of line 324 and the read of session.restartCount++
\* (the increment is not atomic).  Without an entry nothing is updated and
\* the restart still succeeds.
OpBumpRead(o) ==
    /\ spc[o] = "bump_read"
    /\ IF sessions # None
       THEN /\ oref' = [oref EXCEPT ![o] = sessions]
            /\ ocnt' = [ocnt EXCEPT ![o] = heap[sessions].restartCount]
            /\ spc' = [spc EXCEPT ![o] = "bump_write"]
            /\ UNCHANGED <<oret, restartLog>>
       ELSE /\ oret' = [oret EXCEPT ![o] = ErrSessionRestarted]
            /\ restartLog' = Append(restartLog, now)
            /\ spc' = [spc EXCEPT ![o] = "done"]
            /\ UNCHANGED <<oref, ocnt>>
    /\ UNCHANGED <<osess, ores, oerr, onew, oruns>>
    /\ UNCHANGED <<sessEnv, sessions, heap, ocalls, gatewayVars>>

\* restartSession: the write of session.restartCount++ and session.lastError
\* = time.Now(); restartSession returns nil and handleWithRetry returns
\* ErrSessionRestarted.
OpBumpWrite(o) ==
    /\ spc[o] = "bump_write"
    /\ heap' = [heap EXCEPT ![oref[o]].restartCount = ocnt[o] + 1,
                            ![oref[o]].lastError = now]
    /\ oret' = [oret EXCEPT ![o] = ErrSessionRestarted]
    /\ restartLog' = Append(restartLog, now)
    /\ oref' = [oref EXCEPT ![o] = None]
    /\ ocnt' = [ocnt EXCEPT ![o] = 0]
    /\ spc' = [spc EXCEPT ![o] = "done"]
    /\ UNCHANGED <<osess, ores, oerr, onew, oruns>>
    /\ UNCHANGED <<sessEnv, sessions, ocalls, gatewayVars>>

\* Time passes.
Tick ==
    /\ now < MaxTime
    /\ now' = now + 1
    /\ UNCHANGED <<durableMode, childOk, sessions, heap, ocalls, restartLog>>
    /\ UNCHANGED <<spc, opLocals, gatewayVars>>

\* The environment: the child command starts working or stops working.
EnvChild ==
    /\ childOk' = ~childOk
    /\ UNCHANGED <<durableMode, now, sessions, heap, ocalls, restartLog>>
    /\ UNCHANGED <<spc, opLocals, gatewayVars>>

\* The server is up.  The session was registered and its creation task has
\* finished: with a Session stored, or without one if the child failed.
InitSession ==
    /\ durableMode \in BOOLEAN
    /\ childOk \in BOOLEAN
    /\ \/ sessions = 1 /\ heap = <<FreshSession>>
       \/ sessions = None /\ heap = <<>>
    /\ now = 0 /\ ocalls = 0 /\ restartLog = <<>>
    /\ spc = [o \in Ops |-> "idle"]
    /\ osess = [o \in Ops |-> None]
    /\ ores = [o \in Ops |-> NoResult]
    /\ oerr = [o \in Ops |-> NoError]
    /\ oret = [o \in Ops |-> NoError]
    /\ oref = [o \in Ops |-> None]
    /\ onew = [o \in Ops |-> None]
    /\ ocnt = [o \in Ops |-> 0]
    /\ oruns = [o \in Ops |-> 0]

\* no gateway of the other program is involved
InitNoGateway ==
    /\ poolSize = 0 /\ size = 0 /\ chanCap = 0 /\ pool = <<>> /\ proc = <<>>
    /\ startable = TRUE /\ boot = "serving" /\ bi = 0
    /\ command = DefaultCommand
    /\ mpc = "none" /\ needed = 0 /\ mi = 0

InitSessionSpec ==
    InitNoGateway /\ InitConns /\ InitKill /\ InitBridge /\ InitNoHTTP /\ InitSession

\* Operations of one session handled concurrently, in durable mode, with a
\* working child command and within one clock reading.  The session's child
\* has died: every task has an operation in flight on it that has just
\* failed with "broken pipe" and is about to restart the session.
BrokenPipe == [id |-> "operation", phrases |-> {"broken pipe"}]

InitSessionRace ==
    /\ InitNoGateway /\ InitConns /\ InitKill /\ InitBridge /\ InitNoHTTP
    /\ durableMode = TRUE /\ childOk = TRUE
    /\ sessions = 1 /\ heap = <<FreshSession>>
    /\ now = 0 /\ ocalls = MaxOps /\ restartLog = <<>>
    /\ spc = [o \in Ops |-> "cleanup"]
    /\ osess = [o \in Ops |-> 1]
    /\ ores = [o \in Ops |-> NoResult]
    /\ oerr = [o \in Ops |-> BrokenPipe]
    /\ oret = [o \in Ops |-> NoError]
    /\ oref = [o \in Ops |-> None]
    /\ onew = [o \in Ops |-> None]
    /\ ocnt = [o \in Ops |-> 0]
    /\ oruns = [o \in Ops |-> 1]

NextSession ==
    \/ \E o \in Ops : OpStart(o)
    \/ \E o \in Ops : OpGetSession(o)
    \/ \E o \in Ops : OpCreate(o)
    \/ \E o \in Ops : OpStore(o)
    \/ \E o \in Ops : OpLazyLoad(o)
    \/ \E o \in Ops, out \in SomeOutcomes : OpRun(o, out)
    \/ \E o \in Ops : OpCleanupLoad(o)
    \/ \E o \in Ops : OpCleanupClose(o)
    \/ \E o \in Ops : OpCheck(o)
    \/ \E o \in Ops : OpBumpRead(o)
    \/ \E o \in Ops : OpBumpWrite(o)

SpecSession == InitSessionRace /\ [][NextSession]_vars

\* operations of one session, one after the other
NextSessionSeq ==
    \/ OpStart(1)
    \/ OpGetSession(1)
    \/ OpCreate(1)
    \/ OpStore(1)
    \/ OpLazyLoad(1)
    \/ \E out \in Outcomes : OpRun(1, out)
    \/ OpCleanupLoad(1)
    \/ OpCleanupClose(1)
    \/ OpCheck(1)
    \/ OpBumpRead(1)
    \/ OpBumpWrite(1)
    \/ Tick
    \/ EnvChild

SpecSessionSeq == InitSessionSpec /\ [][NextSessionSeq]_vars

\* the stored Session is one that exists, and every task is at a place the
\* code has
SessTypeOK ==
    /\ sessions \in {None} \cup DOMAIN heap
    /\ \A o \in Ops : spc[o] \in {"idle", "get", "lazy_create", "lazy_store",
           "lazy_load", "run", "cleanup", "close", "create", "store", "check",
           "bump_read", "bump_write", "done"}

\* ------------------------------------------- claims: the session bridge
\* the restarts of the session that lie within the trailing 5 minutes
RecentRestarts == {i \in 1..Len(restartLog) : Since(restartLog[i]) < FiveMinutes}

\* C17: the number of restarts performed for one session identifier within
\* any trailing 5-minute window never exceeds 3: of 4 retriable failures
\* within 5 minutes the 4th causes no restart.
C17_RestartBudget == Cardinality(RecentRestarts) <= RestartLimit

\* C18: in durable mode an operation that failed with a retriable error and
\* did not end in a restart (the budget was exhausted, or the restart
\* failed) returns ErrTemporaryFailure, not the original error.
C18_ExhaustedIsTemporary ==
    \A o \in Ops :
        (spc[o] = "done" /\ durableMode /\ oruns[o] = 1
           /\ oerr[o].phrases \cap RetriablePatterns # {}
           /\ oret[o] # ErrSessionRestarted)
        => oret[o] = ErrTemporaryFailure

PassesThrough(err) ==
    err = NoError \/ err.phrases \cap RetriablePatterns = {} \/ ~durableMode

\* C20: for tool call, resource read and prompt get alike, when the
\* operation succeeds, or fails with a non-retriable error, or fails with any
\* error in non-durable mode, handleWithRetry returns right away what the
\* operation returned and the handler hands that on; the session map, the
\* Session objects with their clients and restart counters stay as they are.
C20_PassThrough ==
    [][\A o \in Ops :
         (spc[o] = "run" /\ spc'[o] # "run" /\ PassesThrough(oerr'[o]))
         => /\ spc'[o] = "done"
            /\ oret'[o] = oerr'[o]
            /\ sessions' = sessions /\ heap' = heap /\ restartLog' = restartLog
            /\ \A k \in Kinds :
                  /\ HandlerReturn(k, ores'[o], oret'[o]).err = oerr'[o]
                  /\ HandlerReturn(k, ores'[o], oret'[o]).result =
                       (IF oerr'[o] # NoError THEN "nil"
                        ELSE IF k = "resource" THEN OpResult.contents
                        ELSE OpResult)]_vars

\* in durable mode an operation failed with an error that is not retriable
\* and the handler has returned it, the session untouched
C20_Witness ==
    /\ spc[1] = "done" /\ durableMode /\ oruns[1] = 1
    /\ oerr[1] # NoError /\ oerr[1].phrases = {}
    /\ oret[1] = oerr[1]
    /\ sessions = 1 /\ heap = <<FreshSession>>

\* --------------------------------------------------------- session hooks
\* The hooks of main(): OnRegisterSession starts createSessionForClient in a
\* goroutine of its own, OnUnregisterSession calls cleanupSession.
RegTask == MaxOps + 1
UnregTask == MaxOps + 2
SessTasks == Ops \cup {RegTask, UnregTask}

\* go bridge.createSessionForClient(ctx, id), up to the Store
RegCreate ==
    /\ spc[RegTask] = "reg_create"
    /\ IF childOk
       THEN /\ heap' = Append(heap, FreshSession)
            /\ onew' = [onew EXCEPT ![RegTask] = Len(heap) + 1]
            /\ spc' = [spc EXCEPT ![RegTask] = "reg_store"]
       ELSE /\ spc' = [spc EXCEPT ![RegTask] = "done"]
            /\ UNCHANGED <<heap, onew>>
    /\ UNCHANGED <<osess, ores, oerr, oret, oref, ocnt, oruns>>
    /\ UNCHANGED <<sessEnv, sessions, ocalls, restartLog, gatewayVars>>

\* the registration task's b.sessions.Store, and its end
RegStore ==
    /\ spc[RegTask] = "reg_store"
    /\ sessions' = onew[RegTask]
    /\ onew' = [onew EXCEPT ![RegTask] = None]
    /\ spc' = [spc EXCEPT ![RegTask] = "done"]
    /\ UNCHANGED <<osess, ores, oerr, oret, oref, ocnt, oruns>>
    /\ UNCHANGED <<sessEnv, heap, ocalls, restartLog, gatewayVars>>

\* The client disconnects: OnUnregisterSession -> cleanupSession, the Load.
UnregLoad ==
    /\ spc[UnregTask] = "idle"
    /\ oref' = [oref EXCEPT ![UnregTask] = sessions]
    /\ spc' = [spc EXCEPT ![UnregTask] = IF sessions # None THEN "unreg_close"
                                          ELSE "done"]
    /\ UNCHANGED <<osess, ores, oerr, oret, onew, ocnt, oruns>>
    /\ UNCHANGED <<sessEnv, sessions, heap, ocalls, restartLog, gatewayVars>>

\* the hook's session.stdioClient.Close() and b.sessions.Delete
UnregClose ==
    /\ spc[UnregTask] = "unreg_close"
    /\ heap' = [heap EXCEPT ![oref[UnregTask]].client = "closed"]
    /\ sessions' = None
    /\ oref' = [oref EXCEPT ![UnregTask] = None]
    /\ spc' = [spc EXCEPT ![UnregTask] = "done"]
    /\ UNCHANGED <<osess, ores, oerr, oret, onew, ocnt, oruns>>
    /\ UNCHANGED <<sessEnv, ocalls, restartLog, gatewayVars>>

\* A client has just registered: the registration hook has started the
\* creation task and nothing is stored yet.
InitSessionHooks ==
    /\ InitNoGateway /\ InitConns /\ InitKill /\ InitBridge /\ InitNoHTTP
    /\ durableMode \in BOOLEAN
    /\ childOk \in BOOLEAN
    /\ sessions = None /\ heap = <<>>
    /\ now = 0 /\ ocalls = 0 /\ restartLog = <<>>
    /\ spc = [t \in SessTasks |->
                IF t = RegTask THEN "reg_create" ELSE "idle"]
    /\ osess = [t \in SessTasks |-> None]
    /\ ores = [t \in SessTasks |-> NoResult]
    /\ oerr = [t \in SessTasks |-> NoError]
    /\ oret = [t \in SessTasks |-> NoError]
    /\ oref = [t \in SessTasks |-> None]
    /\ onew = [t \in SessTasks |-> None]
    /\ ocnt = [t \in SessTasks |-> 0]
    /\ oruns = [t \in SessTasks |-> 0]

\* The hooks and the operations of the session, which arrive one after the
\* other as long as the client has not disconnected; an operation in flight
\* when it disconnects goes on.
NextSessionHooks ==
    \/ RegCreate
    \/ RegStore
    \/ UnregLoad
    \/ UnregClose
    \/ (spc[UnregTask] = "idle" /\ OpStart(1))
    \/ OpGetSession(1)
    \/ OpCreate(1)
    \/ OpStore(1)
    \/ OpLazyLoad(1)
    \/ \E out \in Outcomes : OpRun(1, out)
    \/ OpCleanupLoad(1)
    \/ OpCleanupClose(1)
    \/ OpCheck(1)
    \/ OpBumpRead(1)
    \/ OpBumpWrite(1)
    \/ EnvChild

SpecSessionHooks == InitSessionHooks /\ [][NextSessionHooks]_vars

\* ---------------------------------------------- claims: the session hooks
\* no task is creating, storing or restarting a session any more
CreationFinished ==
    /\ spc[RegTask] = "done"
    /\ \A o \in Ops : spc[o] \in {"idle", "done"}

\* C21: once the unregistration hook has run and every creation task started
\* for the identifier has finished, the session map has no entry for it and
\* every child process created for it has been closed.
C21_UnregistrationReleases ==
    (spc[UnregTask] = "done" /\ CreationFinished) =>
        /\ sessions = None
        /\ \A i \in DOMAIN heap : heap[i].client = "closed"

\* ---------------------------------------------------------- configuration
\* the -pool flag and POOL_SIZE values explored: -MaxConfigured..MaxConfigured
MaxConfigured == 12
\* parseConfig: `if poolSize > 10 { poolSize = 10 }`
PoolSizeCap == 10

ConfigInts == (0 - MaxConfigured)..MaxConfigured
\* POOL_SIZE: not set or empty, a text that is no number, or a numeral
EnvValues ==
    {[kind |-> "empty", n |-> 0], [kind |-> "text", n |-> 0]}
        \cup [kind : {"number"}, n : ConfigInts]

\* strconv.Atoi
Atoi(v) == [ok |-> v.kind = "number", n |-> IF v.kind = "number" THEN v.n ELSE 0]

\* parseConfig, for the pool size: the flag (default 0), overridden by
\* POOL_SIZE when it is set and a number, then the cap.
parseConfig(flagPool, envPool) ==
    LET p == IF envPool.kind # "empty" /\ Atoi(envPool).ok
             THEN Atoi(envPool).n ELSE flagPool
    IN IF p > PoolSizeCap THEN PoolSizeCap ELSE p

\* main: parseConfig()
MainParseConfig ==
    /\ boot = "config"
    /\ \E f \in ConfigInts, v \in EnvValues : poolSize' = parseConfig(f, v)
    /\ boot' = "newpool"
    /\ UNCHANGED <<size, chanCap, command, pool, proc, startable, bi, mpc, needed, mi>>
    /\ UNCHANGED <<connVars, killVars, otherVars>>

\* main: pool, err = NewProcessPool(mcpCommand, poolSize), up to the
\* pre-spawn loop.  make(chan *Process, size) panics for a negative size.
MainNewProcessPool ==
    /\ boot = "newpool"
    /\ IF poolSize < 0
       THEN /\ boot' = "panic"
            /\ UNCHANGED <<size, chanCap>>
       ELSE /\ size' = NewProcessPool(poolSize).size
            /\ chanCap' = NewProcessPool(poolSize).chanCap
            /\ boot' = "prespawn"
    /\ UNCHANGED <<poolSize, command, pool, proc, startable, bi, mpc, needed, mi>>
    /\ UNCHANGED <<connVars, killVars, otherVars>>

\* The program has been started and main has not read its configuration.
InitConfig ==
    /\ poolSize = 0 /\ size = 0 /\ chanCap = 0
    /\ pool = <<>> /\ proc = <<>>
    /\ startable \in BOOLEAN
    /\ command = DefaultCommand
    /\ boot = "config"
    /\ bi = 0 /\ mpc = "none" /\ needed = 0 /\ mi = 0
    /\ InitConns /\ InitKill /\ InitBridge /\ InitNoHTTP /\ InitNoSession

NextConfig ==
    \/ MainParseConfig
    \/ MainNewProcessPool
    \/ EnvStartable
    \/ PreSpawn
    \/ PoolReady

SpecConfig == InitConfig /\ [][NextConfig]_vars

\* -------------------------------------------------- claims: configuration
\* C22: the pool capacity handed to NewProcessPool lies in 0..10, whatever
\* the flag and POOL_SIZE say: negative values and values above 10 included.
C22_CapacityClamped ==
    boot # "config" => poolSize \in 0..PoolSizeCap

\* ------------------------------------------------- claims: Kill's protocol
\* NextKill with SIGKILL ending the process
NextKillSignals ==
    \/ NextKill
    \/ \E p \in DOMAIN proc : ChildKilled(p)

SpecKillSignals == InitKillSpec /\ [][NextKillSignals]_vars

\* Every Kill() that can take a step eventually does, a running timer
\* expires, SIGKILL ends the process and Wait returns for a process that has
\* exited.  Nothing forces the process to exit on end of input or on SIGTERM.
FairSpecKill ==
    /\ SpecKillSignals
    /\ \A t \in Killers :
          /\ WF_vars(KillEnter(t))
          /\ WF_vars(KillGraceDone(t)) /\ WF_vars(KillGraceTimeout(t))
          /\ WF_vars(KillSecondDone(t)) /\ WF_vars(KillSecondTimeout(t))
          /\ WF_vars(KillReturn(t))
    /\ WF_vars(\E p \in DOMAIN proc : TimerFire(p))
    /\ WF_vars(\E p \in DOMAIN proc : ChildKilled(p))
    /\ WF_vars(\E p \in DOMAIN proc : WaitReturn(p))

\* task t is in the select of the given window of a kill sequence on p
InWindow(t, p, w) == kpc[t] = w /\ ktarget[t] = p

\* C23: within one kill sequence stdin is closed before anything else;
\* SIGTERM is sent only when the 2s window has expired, which it does only
\* while no exit has been reported; SIGKILL is sent only after SIGTERM, when
\* the 1s window has expired in the same way; once the exit has been reported
\* inside a window no signal is sent any more.
C23_TerminateOrder ==
    /\ [](\A p \in DOMAIN proc :
            /\ (proc[p].waiter # "none" \/ proc[p].timer # "none"
                   \/ proc[p].sigterm > 0 \/ proc[p].sigkill > 0)
                  => proc[p].stdin = "closed"
            /\ proc[p].sigkill > 0 => proc[p].sigterm > 0)
    /\ [][\A p \in DOMAIN proc :
            /\ proc'[p].sigterm > proc[p].sigterm =>
                  /\ proc[p].timer = "fired" /\ proc[p].stdin = "closed"
                  /\ proc[p].sigkill = 0
                  /\ \E t \in Tasks : InWindow(t, p, "grace")
            /\ proc'[p].sigkill > proc[p].sigkill =>
                  /\ proc[p].timer = "fired" /\ proc[p].sigterm = 1
                  /\ \E t \in Tasks : InWindow(t, p, "second")
            /\ (proc[p].timer = "running" /\ proc'[p].timer = "fired") =>
                  proc[p].waiter # "done"
            /\ (proc[p].waiter = "done" /\ proc[p].timer # "fired") =>
                  /\ proc'[p].sigterm = proc[p].sigterm
                  /\ proc'[p].sigkill = proc[p].sigkill]_vars

\* the process ignored the end of input and exited on SIGTERM inside the
\* secondary window: Kill has returned and no SIGKILL was sent
C23_Witness ==
    /\ proc[1].killed /\ proc[1].mu = None
    /\ proc[1].sigterm = 1 /\ proc[1].sigkill = 0 /\ proc[1].waiter = "done"

\* C24: a Kill() that has been called returns, on every path, and a process
\* whose kill sequence has been started is in the end reaped by the goroutine
\* waiting for it, also where Kill() returned right after sending SIGKILL.
C24_ReturnsAndReaps ==
    /\ \A t \in Killers : (kpc[t] = "call") ~> (kpc[t] = "ret")
    /\ (proc[1].kills > 0) ~> (proc[1].waiter = "done" /\ proc[1].os = "exited")
    /\ [](\A p \in DOMAIN proc :
            (proc[p].sigkill > 0 /\ proc[p].mu = None) => proc[p].waiter # "none")

\* Kill() has returned right after SIGKILL and the process has been reaped
C24_Witness ==
    /\ proc[1].sigkill = 1 /\ proc[1].mu = None
    /\ proc[1].waiter = "done" /\ proc[1].os = "exited"
    /\ \E t \in Killers : kcalls[t] >= 1

\* ------------------------------------------------ claims: the command line
\* The pool and its connections for any command line main() accepts.
InitCommand ==
    /\ InitPoolOf(Commands)
    /\ InitConns /\ InitKill /\ InitBridge /\ InitNoHTTP /\ InitNoSession

SpecCommand == InitCommand /\ [][NextPool]_vars

\* C25: Start() reports an error whenever it starts no OS process, so every
\* process held by the pool or by a connection or request has a started OS
\* process and its stream handles.
C25_OnlyStartedProcessesHeld ==
    \A p \in DOMAIN proc : Holders(p) > 0 => proc[p].cmd = "started"

\* ---------------------------------------------------- claims: the pumps
\* s is an initial part of t
IsPrefix(s, t) == Len(s) <= Len(t) /\ s = SubSeq(t, 1, Len(s))

\* the number of frames ReadMessage has returned so far
FramesRead == Len(sent) - Len(wsIn)

\* what the first n frames of the connection put on stdin: for every text
\* frame its bytes and one newline
RECURSIVE Forwarded(_)
Forwarded(n) ==
    IF n = 0 THEN <<>>
    ELSE Forwarded(n - 1) \o (IF sent[n] = "text" THEN <<n, "nl">> ELSE <<>>)

\* C26: what pipeWebSocketToStdin has written to stdin is, for the frames
\* read so far, the bytes of each text frame followed by one newline, in the
\* order received; a frame of another type is skipped and the loop goes on;
\* the first failed read or write ends the task, which writes and reads
\* nothing afterwards.
C26_InboundFraming ==
    /\ [](/\ ipc \in {"none", "read"} => stdinData = Forwarded(FramesRead)
          /\ ipc = "write" =>
                /\ sent[FramesRead] = "text" /\ imsg = FramesRead
                /\ stdinData = Forwarded(FramesRead - 1)
          /\ ipc = "newline" =>
                stdinData = Forwarded(FramesRead - 1) \o <<FramesRead>>
          /\ InboundEnded => IsPrefix(stdinData, Forwarded(FramesRead)))
    /\ [][/\ InboundEnded =>
                /\ InboundEnded' /\ stdinData' = stdinData
                /\ FramesRead' = FramesRead
          /\ (ipc = "read" /\ FramesRead' > FramesRead
                  /\ Head(wsIn).type # "text") =>
                (ipc' = "read" /\ stdinData' = stdinData)
          /\ (ipc \in {"write", "newline"} /\ ipc' # ipc
                  /\ stdinData' = stdinData) => InboundEnded'
          /\ (ipc = "read" /\ ipc' # "read" /\ FramesRead' = FramesRead) =>
                InboundEnded']_vars

\* a binary frame was skipped and the text frame after it was forwarded with
\* its newline; the pump is reading on
C26_Witness ==
    /\ sent = <<"binary", "text">> /\ wsIn = <<>>
    /\ stdinData = <<2, "nl">> /\ ipc = "read"

\* the number of chunks Read has returned so far
ChunksRead == emitted - Len(outBuf)

\* pipeStdoutToWebSocket has left its loop
OutboundEnded == opc = "ended"

\* C27: the text frames pipeStdoutToWebSocket has sent are the chunks it has
\* read, one frame per chunk, in read order, none left out, repeated or
\* changed; the chunk not yet sent is the last one read; after the end of
\* the stream or the first failed read or write nothing more is read or sent.
C27_OutboundOrder ==
    /\ [](/\ opc \in {"none", "read"} => wsOut = [i \in 1..ChunksRead |-> i]
          /\ opc = "send" =>
                /\ ochunk = ChunksRead
                /\ wsOut = [i \in 1..(ChunksRead - 1) |-> i]
          /\ OutboundEnded =>
                \E k \in {ChunksRead - 1, ChunksRead} :
                    k >= 0 /\ wsOut = [i \in 1..k |-> i])
    /\ [][/\ OutboundEnded =>
                /\ OutboundEnded' /\ wsOut' = wsOut
                /\ ChunksRead' = ChunksRead
          /\ (opc = "send" /\ opc' # "send" /\ wsOut' = wsOut) =>
                OutboundEnded'
          /\ (opc = "read" /\ opc' # "read" /\ ChunksRead' = ChunksRead) =>
                OutboundEnded']_vars

\* two chunks were read and sent in their order and the pump is reading on
C27_Witness ==
    /\ wsOut = <<1, 2>> /\ outBuf = <<>> /\ opc = "read"

\* ------------------------------------------- claims: the lines of a POST
\* a result or an error that is not a request or notification of the server
IsResponseLine(l) ==
    /\ l.kind = "object" /\ "method" \notin l.keys
    /\ "result" \in l.keys \/ "error" \in l.keys

\* C28: the non-streaming loop handles a line by its shape: a line with a
\* method is read over, with or without an id; a result or error with an id
\* that is not null is the 200 body; a result or error whose id is null is
\* answered 202; a line that is no JSON is skipped; and a POST that asks for
\* a single JSON body ends in one of the loop's answers.
C28_SingleClassification ==
    /\ \A l \in Lines :
          /\ ~ValidJSON(l) => SingleClassify(l) = "continue"
          /\ (l.kind = "object" /\ "method" \in l.keys) =>
                SingleClassify(l) = "continue"
          /\ (IsResponseLine(l) /\ "id" \in l.keys /\ ~l.idnull) =>
                SingleClassify(l) = "200"
          /\ (IsResponseLine(l) /\ "id" \in l.keys /\ l.idnull) =>
                SingleClassify(l) = "202"
    /\ (SingleJsonPost /\ hpc = "done") => hstatus \in {200, 202, 500, 504}

\* the streaming loop of a POST takes the next line of the process's output
StreamTakesLine ==
    /\ req.method = "POST" /\ hpc = "stream"
    /\ hlines # <<>> /\ hlines' = Tail(hlines)

\* C29: in the streaming loop a line that is valid JSON is relayed as the
\* next data event and any other line is skipped; the relay goes on after a
\* skipped line and after a line with an id, and stops with the first valid
\* JSON line without an id field; outside the loop no data event is written.
C29_StreamingRelay ==
    /\ [][StreamTakesLine =>
            /\ hout' = IF ValidJSON(Head(hlines))
                       THEN Append(hout, [event |-> "data", line |-> Head(hlines)])
                       ELSE hout
            /\ hpc' = IF ValidJSON(Head(hlines)) /\ "id" \notin Head(hlines).keys
                      THEN "doneevent" ELSE "stream"]_vars
    /\ [][(req.method = "POST" /\ ~StreamTakesLine) =>
            \/ hout' = hout
            \/ hout' = Append(hout, [event |-> "done", line |-> None])]_vars

\* --------------------------------------------- claims: the GET event stream
\* The client of the request closes the connection or goes away.
HClientDisconnect ==
    /\ client = "open"
    /\ hpc # "done"
    /\ client' = "closed"
    /\ UNCHANGED <<wpc, bproc, bdone, wg, ipc, imsg, opc, ochunk, conn, wsIn,
                   sent, stdinData, outBuf, emitted, wsOut>>
    /\ UNCHANGED <<poolVars, connVars, killVars, httpVars, sessVars>>

\* A GET request has arrived at handleHTTP.
InitSSESpec ==
    /\ InitWarmPool /\ InitConns /\ InitKill /\ InitBridge /\ InitNoSession
    /\ req \in {r \in Requests : r.method = "GET"}
    /\ hpc = "entry" /\ hstatus = 0 /\ hproc = None
    /\ hcalls = {} /\ hlines = <<>> /\ hemitted = 0 /\ hout = <<>>

NextSSE ==
    \/ HValidate
    \/ HSseSpawn
    \/ HSseScan
    \/ HKillCall
    \/ HKillReturned
    \/ HClientDisconnect
    \/ \E l \in Lines : ChildEmitLine(l)
    \/ KillEnter(Owner)
    \/ KillGraceDone(Owner)
    \/ KillGraceTimeout(Owner)
    \/ KillSecondDone(Owner)
    \/ KillSecondTimeout(Owner)
    \/ \E p \in DOMAIN proc : TimerFire(p)
    \/ \E p \in DOMAIN proc : ChildExit(p)
    \/ \E p \in DOMAIN proc : WaitReturn(p)

\* The handler takes every step it can, a running timer expires and Wait
\* returns for a process that has exited.  (The scan loop ends only with the
\* process's output, so Kill's signals find no running process here.)
\* Nothing forces the child to write or to exit, nor the client to stay.
FairSpecSSE ==
    /\ InitSSESpec /\ [][NextSSE]_vars
    /\ WF_vars(HValidate) /\ WF_vars(HSseSpawn) /\ WF_vars(HSseScan)
    /\ WF_vars(HKillCall) /\ WF_vars(HKillReturned)
    /\ WF_vars(KillEnter(Owner))
    /\ WF_vars(KillGraceDone(Owner)) /\ WF_vars(KillGraceTimeout(Owner))
    /\ WF_vars(KillSecondDone(Owner)) /\ WF_vars(KillSecondTimeout(Owner))
    /\ WF_vars(\E p \in DOMAIN proc : TimerFire(p))
    /\ WF_vars(\E p \in DOMAIN proc : WaitReturn(p))

\* C30: once the client of a GET stream has disconnected, the handler
\* returns and Kill() has been called on the stream's process, also when the
\* child stays alive and writes nothing.
C30_StreamEndsWithClient ==
    (req.method = "GET" /\ hpc = "sse_scan" /\ client = "closed")
        ~> (hpc = "done" /\ "Kill" \in hcalls /\ proc[hproc].killed)

\* ------------------------------------------------ claims: the POST body
\* a POST that has passed the header checks
PostAccepted == req.method = "POST" /\ Validate(req) = "post"

\* C31: a POST whose body is not one JSON object (no JSON at all, an array,
\* the literal null, ...) is answered 400, and its handler neither acquires a
\* process nor writes to one.
C31_BodyMustBeObject ==
    (PostAccepted /\ req.body.kind # "object") =>
        /\ hpc \in {"entry", "readbody", "done"}
        /\ hpc = "done" => hstatus = 400
        /\ HNoProcessEffect

\* ------------------------------------------------ claims: session access
\* task o is between the first and the second Load of getSessionFromContext
InLazyCreation(o) == spc[o] \in {"lazy_create", "lazy_store", "lazy_load"}

\* C32: an operation that finds no entry for its session: in durable mode
\* attempts one creation before anything else, then runs on the session just
\* created, or, if there is still none, returns ErrTemporaryFailure without
\* having run; in non-durable mode it returns the session-not-found error,
\* without running and without creating a process.
C32_SessionAccess ==
    /\ [](InLazyCreation(1) => (durableMode /\ oruns[1] = 0))
    /\ [][(spc[1] = "get" /\ spc'[1] # "get" /\ sessions = None) =>
            /\ heap' = heap /\ sessions' = sessions /\ oruns'[1] = 0
            /\ IF durableMode
               THEN spc'[1] = "lazy_create"
               ELSE spc'[1] = "done" /\ oret'[1] = ErrSessionNotFound]_vars
    /\ [][(InLazyCreation(1) /\ spc'[1] # spc[1]) =>
            /\ Len(heap') = Len(heap) + (IF spc'[1] = "lazy_store" THEN 1 ELSE 0)
            /\ spc[1] = "lazy_create" => spc'[1] \in {"lazy_store", "lazy_load"}
            /\ spc[1] = "lazy_store" =>
                  (spc'[1] = "lazy_load" /\ sessions' = Len(heap))
            /\ spc[1] = "lazy_load" =>
                  IF sessions # None
                  THEN /\ spc'[1] = "run" /\ osess'[1] = sessions
                       /\ sessions = Len(heap) /\ heap[sessions].client = "open"
                  ELSE /\ spc'[1] = "done" /\ oret'[1] = ErrTemporaryFailure
                       /\ oruns'[1] = 0 /\ heap' = heap]_vars

\* in durable mode an operation found no entry, created the session and is
\* about to run on it
C32_Witness ==
    /\ durableMode /\ spc[1] = "lazy_load"
    /\ sessions # None /\ sessions = Len(heap) /\ oruns[1] = 0


\* ------------------------------------------------ claims: session binding
\* The children serving the session identifier: an open child that the
\* session map's entry refers to, or that an operation of the session is
\* running on (the *Session handleWithRetry holds while operation(session)
\* is in progress).
BoundChildren ==
    {h \in DOMAIN heap :
        /\ heap[h].client = "open"
        /\ \/ sessions = h
           \/ \E o \in Ops : spc[o] = "run" /\ osess[o] = h}

\* C33: at most one child process is bound to the session identifier, in
\* every reachable state, whatever the interleaving of the registration
\* task, lazy creation, restarts and unregistration.
C33_OneBoundChild == Cardinality(BoundChildren) <= 1


\* C34: when a retriable failure triggers a restart and the replacement
\* child cannot be created or initialized, nothing is stored, handleWithRetry
\* returns ErrTemporaryFailure without counting a restart or running the
\* operation again, the old session's client has been closed and the
\* identifier has no entry.
C34_FailedRestart ==
    /\ [][(spc[1] = "create" /\ ~childOk /\ spc'[1] # "create") =>
              /\ spc'[1] = "check"
              /\ heap' = heap /\ sessions' = None /\ sessions = None]_vars
    /\ [][(spc[1] = "check" /\ sessions = None /\ spc'[1] # "check") =>
              /\ spc'[1] = "done" /\ oret'[1] = ErrTemporaryFailure
              /\ heap'[osess[1]].client = "closed"
              /\ sessions' = None
              /\ restartLog' = restartLog /\ oruns'[1] = 1]_vars

\* a "broken pipe" failure started a restart, the new child could not be
\* created and the caller got ErrTemporaryFailure
C34_Witness ==
    /\ spc[1] = "done" /\ durableMode /\ oruns[1] = 1
    /\ oerr[1].phrases = {"broken pipe"}
    /\ oret[1] = ErrTemporaryFailure
    /\ osess[1] = 1 /\ heap[1].client = "closed" /\ sessions = None


\* ------------------------------------------------------ ProcessPool.spawn
\* p.spawn() called at any time once the pool is built.  NewProcessPool calls
\* it on an empty channel and maintainPool for the deficit it has just
\* computed, while only Get() takes processes out, so neither of them meets
\* a full channel; this caller does.
SpawnAnytime ==
    /\ boot = "serving"
    /\ size > 0
    /\ NewPid <= MaxSpawned
    /\ SpawnCall
    /\ UNCHANGED <<poolSize, size, chanCap, command, startable, boot, bi, mpc, needed, mi>>
    /\ UNCHANGED <<connVars, killVars, otherVars>>

NextSpawn ==
    \/ NextPool
    \/ SpawnAnytime

SpecSpawn == Init /\ [][NextSpawn]_vars

\* the step is a p.spawn() whose start succeeded: process NewPid is new
Spawned == NewPid \in DOMAIN proc' /\ proc'[NewPid].by = "pool"

\* the callers of spawn() in the program never find the channel full
SpawnFindsRoom == [][Spawned => Len(pool) < chanCap]_vars

\* C35: a process the pool has spawned is, once spawn() has returned, in the
\* pool or has had Kill() called on it once; one that found the pool full is
\* killed, not inserted, and never inserted or handed to a caller later.
C35_OverflowKilled ==
    /\ [][Spawned =>
            IF Len(pool) < chanCap
            THEN pool' = Append(pool, NewPid) /\ ~proc'[NewPid].killed
            ELSE /\ pool' = pool
                 /\ proc'[NewPid].killed /\ proc'[NewPid].kills = 1
                 /\ proc'[NewPid].os = "exited"]_vars
    /\ [][\A p \in DOMAIN proc :
            (proc[p].by = "pool" /\ ~InPool(p)) =>
                /\ ~InPool(p)'
                /\ \A c \in Conns : cproc'[c] = p => cproc[c] = p]_vars
    /\ [](\A p \in DOMAIN proc :
            proc[p].by = "pool" =>
                \/ InPool(p) \/ proc[p].killed
                \/ \E c \in Conns : cproc[c] = p /\ cpc[c] = "own")

\* a process was spawned while the pool was full: it is killed, in no pool
\* slot and with no caller
C35_Witness ==
    /\ chanCap > 0 /\ Len(pool) = chanCap
    /\ \E p \in DOMAIN proc :
          /\ proc[p].by = "pool" /\ proc[p].killed /\ proc[p].kills = 1
          /\ ~InPool(p)
          /\ \A c \in Conns : cproc[c] # p


\* -------------------------------------------------- ProcessPool.Shutdown
\* main() after NewProcessPool: boot is "serving" until Shutdown() is called,
\* then "shutdown_wait" (p.shutdown is closed, Shutdown is in p.wg.Wait()),
\* "draining" (p.pool is closed, the range loop runs) and "stopped"
\* (Shutdown has returned).  mpc is "returned" once maintainPool has
\* returned and its deferred p.wg.Done() has run.
ShutdownClosed == boot \in {"shutdown_wait", "draining", "stopped"}

\* Shutdown(): close(p.shutdown)
ShutdownCall ==
    /\ boot = "serving"
    /\ boot' = "shutdown_wait"
    /\ UNCHANGED <<poolSize, size, chanCap, command, pool, proc, startable, bi, mpc, needed, mi>>
    /\ UNCHANGED <<connVars, killVars, otherVars>>

\* maintainPool: the select takes `case <-p.shutdown` and the loop returns.
\* A ticker that has fired too leaves the choice between the two cases open,
\* so MaintainTick stays enabled.
MaintainStop ==
    /\ mpc = "select"
    /\ ShutdownClosed
    /\ mpc' = "returned"
    /\ UNCHANGED <<poolSize, size, chanCap, command, pool, proc, startable, boot, bi, needed, mi>>
    /\ UNCHANGED <<connVars, killVars, otherVars>>

\* mutant: Shutdown does not wait for the maintenance loop
ShutdownWaited_NoWait ==
    /\ boot = "shutdown_wait"
    /\ boot' = "draining"
    /\ UNCHANGED <<poolSize, size, chanCap, command, pool, proc, startable, bi, mpc, needed, mi>>
    /\ UNCHANGED <<connVars, killVars, otherVars>>

\* Shutdown(): p.wg.Wait() returns when the maintenance goroutine has
\* returned (or was never started: size 0); then close(p.pool).
ShutdownWaited ==
    /\ boot = "shutdown_wait"
    /\ mpc \in {"none", "returned"}
    /\ boot' = "draining"
    /\ UNCHANGED <<poolSize, size, chanCap, command, pool, proc, startable, bi, mpc, needed, mi>>
    /\ UNCHANGED <<connVars, killVars, otherVars>>

\* Shutdown(): one iteration of `for process := range p.pool`:
\* process.Kill()
ShutdownDrain ==
    /\ boot = "draining"
    /\ pool # <<>>
    /\ pool' = Tail(pool)
    /\ proc' = [proc EXCEPT ![Head(pool)] = KillDone(proc[Head(pool)])]
    /\ UNCHANGED <<poolSize, size, chanCap, command, startable, boot, bi, mpc, needed, mi>>
    /\ UNCHANGED <<connVars, killVars, otherVars>>

\* Shutdown(): the closed channel is empty, the range loop ends and
\* Shutdown returns.
ShutdownReturn ==
    /\ boot = "draining"
    /\ pool = <<>>
    /\ boot' = "stopped"
    /\ UNCHANGED <<poolSize, size, chanCap, command, pool, proc, startable, bi, mpc, needed, mi>>
    /\ UNCHANGED <<connVars, killVars, otherVars>>

\* The pool with Shutdown() called at any time after NewProcessPool has
\* returned; handlers that have arrived go on calling Get().
NextShutdown ==
    \/ NextPool
    \/ ShutdownCall
    \/ MaintainStop
    \/ ShutdownWaited
    \/ ShutdownDrain
    \/ ShutdownReturn

SpecShutdown == Init /\ [][NextShutdown]_vars

\* C36: Shutdown() waits for the maintenance loop to return before it closes
\* and drains the channel: from then on nothing is spawned or inserted, a
\* round in progress when Shutdown() was called has inserted before the
\* drain, and once Shutdown() has returned the pool is empty and stays so
\* and Kill() has been called on every pooled process that no caller took.
C36_ShutdownDrains ==
    /\ [](boot \in {"draining", "stopped"} => mpc \in {"none", "returned"})
    /\ [][(boot = "draining" \/ boot = "stopped") =>
            /\ ~Spawned
            /\ Len(pool') <= Len(pool) /\ mpc' = mpc]_vars
    /\ [][(boot = "draining" /\ boot' = "draining" /\ pool' # pool
             /\ cproc' = cproc) =>
            /\ proc'[Head(pool)].killed /\ proc'[Head(pool)].os = "exited"
            /\ pool' = Tail(pool)]_vars
    /\ [](boot = "stopped" =>
            /\ pool = <<>>
            /\ \A p \in DOMAIN proc :
                  proc[p].by = "pool" =>
                     \/ proc[p].killed
                     \/ \E c \in Conns : cproc[c] = p /\ cpc[c] = "own")

\* Shutdown() has returned after a replenishment; a process it found idle is
\* killed without ever having had a caller, while a process a Get() took is
\* still running with its connection
C36_Witness ==
    /\ boot = "stopped" /\ mpc = "returned" /\ pool = <<>>
    /\ Cardinality(DOMAIN proc) > poolSize
    /\ \E p \in DOMAIN proc :
          /\ proc[p].by = "pool" /\ proc[p].killed
          /\ \A c \in Conns : cproc[c] # p
    /\ \E c \in Conns :
          cpc[c] = "own" /\ proc[cproc[c]].by = "pool" /\ ~proc[cproc[c]].killed


\* --------------------------------------------------- claims: session leaks
\* Session h is in the hands of a task that is about to store it
\* (createSessionForClient between Initialize and Store) or to close it
\* (cleanupSession between Load and Close).
InHand(h) ==
    \E t \in DOMAIN spc :
        \/ onew[t] = h
        \/ oref[t] = h /\ spc[t] \in {"close", "unreg_close"}

\* C37: in every reachable state a child created and initialized for the
\* session identifier is the one the session map holds for it, or is
\* closed, or is about to be stored or closed by the task that has it in
\* hand.
C37_NoSessionLeak ==
    \A h \in DOMAIN heap :
        heap[h].client = "open" => (sessions = h \/ InHand(h))


\* ------------------------------------------- claims: the streaming POST
\* A POST request with a protocol version, both media types accepted and a
\* JSON-RPC request as body has arrived at handleHTTP.
InitPostSpec ==
    /\ InitWarmPool /\ InitConns /\ InitKill /\ InitBridge /\ InitNoSession
    /\ req = [version |-> "2025-06-18", method |-> "POST",
              accept |-> {"application/json", "text/event-stream"},
              body |-> [kind |-> "object", keys |-> {"method"}]]
    /\ hpc = "entry" /\ hstatus = 0 /\ hproc = None
    /\ hcalls = {} /\ hlines = <<>> /\ hemitted = 0 /\ hout = <<>>

NextPost ==
    \/ HValidate
    \/ HReadBody
    \/ HAcquire
    \/ HColdStart
    \/ HWrite
    \/ HNewline
    \/ HStreamScan
    \/ HDoneEvent
    \/ HKillCall
    \/ HKillReturned
    \/ \E l \in Lines : ChildEmitLine(l)
    \/ KillEnter(Owner)
    \/ KillGraceDone(Owner)
    \/ KillGraceTimeout(Owner)
    \/ KillSecondDone(Owner)
    \/ KillSecondTimeout(Owner)
    \/ \E p \in DOMAIN proc : TimerFire(p)
    \/ \E p \in DOMAIN proc : ChildExit(p)
    \/ \E p \in DOMAIN proc : ChildKilled(p)
    \/ \E p \in DOMAIN proc : WaitReturn(p)

\* The handler takes every step it can, a running timer expires, SIGKILL
\* ends the process and Wait returns for a process that has exited.  Nothing
\* forces the child to write another line or to exit by itself.
FairSpecPost ==
    /\ InitPostSpec /\ [][NextPost]_vars
    /\ WF_vars(HValidate) /\ WF_vars(HReadBody) /\ WF_vars(HAcquire)
    /\ WF_vars(HColdStart) /\ WF_vars(HWrite) /\ WF_vars(HNewline)
    /\ WF_vars(HStreamScan) /\ WF_vars(HDoneEvent)
    /\ WF_vars(HKillCall) /\ WF_vars(HKillReturned)
    /\ WF_vars(KillEnter(Owner))
    /\ WF_vars(KillGraceDone(Owner)) /\ WF_vars(KillGraceTimeout(Owner))
    /\ WF_vars(KillSecondDone(Owner)) /\ WF_vars(KillSecondTimeout(Owner))
    /\ WF_vars(\E p \in DOMAIN proc : TimerFire(p))
    /\ WF_vars(\E p \in DOMAIN proc : ChildKilled(p))
    /\ WF_vars(\E p \in DOMAIN proc : WaitReturn(p))

\* a notification: a method and no id
Notification(l) == l.kind = "object" /\ l.keys = {"method"}

\* the lines relayed to the client so far, in order
Relayed == SelectSeq(hout, LAMBDA ev : ev.event = "data")

\* what the child has written so far, where every line of it was valid
\* JSON: the lines relayed followed by the lines not scanned yet
Written ==
    [i \in 1..(Len(Relayed) + Len(hlines)) |->
        IF i <= Len(Relayed) THEN Relayed[i].line ELSE hlines[i - Len(Relayed)]]

\* the child has written notifications and then the response that carries
\* the request's id, and nothing else
ChildAnswered ==
    /\ hemitted = Len(Written) /\ hemitted > 0
    /\ Written[hemitted] = PingResult
    /\ \A i \in 1..(hemitted - 1) : Notification(Written[i])

\* C38: in a streaming POST, once the child has written zero or more
\* notifications and then the response carrying the request's id, the
\* handler relays that response, then writes `event: done`, returns, and
\* has Kill() called on the process, also when the child then waits for
\* more input.
C38_StreamingPostFinishes ==
    (hpc = "stream" /\ ChildAnswered)
        ~> /\ hpc = "done"
           /\ \E i \in 1..Len(hout) :
                 hout[i].event = "data" /\ hout[i].line = PingResult
           /\ DoneMarkerLast
           /\ proc[hproc].killed

====
